---- MODULE Spec2Model ----
(***************************************************************************)
(* AirAlert: the geospatial threshold-alerting pipeline.                   *)
(*                                                                         *)
(*   ThresholdDetector  backend/gis_processing/threshold.py                *)
(*   AlertTrigger       backend/alerts/trigger.py                          *)
(*   check_threshold_exceedances_task  backend/api/alerts/routes.py        *)
(*                                                                         *)
(* Concentrations and thresholds are kept in tenths of the source's unit   *)
(* (35.4 is 354), so that every comparison of the source is an integer     *)
(* comparison.  A polygon of the detector is the set of grid cells it      *)
(* covers; the areas the trigger is handed are boxes in hundredths of a    *)
(* degree.  The database session is modelled by the rows written in its    *)
(* open transaction and the rows committed.                                *)
(***************************************************************************)
EXTENDS Integers, Sequences, FiniteSets, TLC

\* ------------------------------------------------------------------ bounds
GridRows == 3
GridCols == 3
LoValue == 1000
HiValue == 4000
MaxPatch == 2
NumLevels == 2
MaxRows == 1
NumUsers == 2
MaxTick == 1
MaxSteps == 2
MaxCalls == 2
MaxSamples == 2
MaxStationRecords == 51
MaxReadingRecords == 101

Cells == (1..GridRows) \X (1..GridCols)
Values == {LoValue, HiValue}

\* The grids of the calls: one value everywhere but in a patch of at most
\* MaxPatch cells, which hold the other value.
Grids ==
  {[c \in Cells |-> IF c \in patch THEN inside ELSE around] :
     patch \in {P \in SUBSET Cells : Cardinality(P) <= MaxPatch},
     inside \in Values, around \in Values}

\* The value a missing dictionary entry or a None threshold is modelled by.
NoneThreshold == -1

EmptyMap == [k \in {} |-> <<>>]

\* ------------------------------------------------------- ThresholdDetector
DEFAULT_THRESHOLDS ==
  [pm25 |-> [good |-> 120, moderate |-> 354, unhealthy_sensitive |-> 554,
             unhealthy |-> 1504, very_unhealthy |-> 2504, hazardous |-> 3504],
   pm10 |-> [good |-> 540, moderate |-> 1540, unhealthy_sensitive |-> 2540,
             unhealthy |-> 3540, very_unhealthy |-> 4240, hazardous |-> 5040],
   o3   |-> [good |-> 540, moderate |-> 700, unhealthy_sensitive |-> 850,
             unhealthy |-> 1050, very_unhealthy |-> 2000, hazardous |-> 3000],
   no2  |-> [good |-> 530, moderate |-> 1000, unhealthy_sensitive |-> 3600,
             unhealthy |-> 6490, very_unhealthy |-> 12490, hazardous |-> 16490],
   so2  |-> [good |-> 350, moderate |-> 750, unhealthy_sensitive |-> 1850,
             unhealthy |-> 3040, very_unhealthy |-> 6040, hazardous |-> 8040],
   co   |-> [good |-> 44, moderate |-> 94, unhealthy_sensitive |-> 124,
             unhealthy |-> 154, very_unhealthy |-> 304, hazardous |-> 404],
   aqi  |-> [good |-> 500, moderate |-> 1000, unhealthy_sensitive |-> 1500,
             unhealthy |-> 2000, very_unhealthy |-> 3000, hazardous |-> 5000]]

\* Threshold tables a configuration may supply in place of the default:
\* one without an 'aqi' entry and with levels out of order, one with its own
\* 'aqi' entry and a level left out, one holding a None threshold.
CustomTables ==
  { [pm25 |-> [moderate |-> 3000, unhealthy |-> 500, hazardous |-> 2000]],
    [pm25 |-> [good |-> 100, moderate |-> 500, hazardous |-> 3000],
     aqi  |-> [moderate |-> 500, unhealthy |-> 1000, very_unhealthy |-> 3999]],
    [pm25 |-> [moderate |-> 500, unhealthy |-> NoneThreshold, hazardous |-> 3000],
     aqi  |-> [moderate |-> 500, hazardous |-> 4000]] }

\* config.get('thresholds', self.DEFAULT_THRESHOLDS)
ThresholdTables == {DEFAULT_THRESHOLDS} \cup CustomTables

severity_levels ==
  <<"hazardous", "very_unhealthy", "unhealthy", "unhealthy_sensitive", "moderate">>

\* The pollutants identify_threshold_exceedances is called with; "voc" is in
\* no table.
Pollutants == {"pm25", "no2", "voc"}

\* The lookup without its fallback to the 'aqi' entry.
ThresholdsWithoutFallback(thresholds, pollutant) ==
  IF pollutant \notin DOMAIN thresholds THEN EmptyMap ELSE thresholds[pollutant]

PollutantThresholds(thresholds, pollutant) ==
  IF pollutant \notin DOMAIN thresholds
    THEN IF "aqi" \in DOMAIN thresholds THEN thresholds["aqi"] ELSE EmptyMap
    ELSE thresholds[pollutant]

\* The mask taken below the threshold instead of above it.
detect_below(thresholds, concentration, pollutant, threshold_level) ==
  LET pt    == PollutantThresholds(thresholds, pollutant)
      level == IF threshold_level \notin DOMAIN pt THEN "unhealthy"
               ELSE threshold_level
      threshold == IF level \in DOMAIN pt THEN pt[level] ELSE NoneThreshold
  IN IF threshold = NoneThreshold
       THEN [raised |-> TRUE, mask |-> {}, threshold_value |-> threshold]
       ELSE [raised |-> FALSE,
             mask |-> {c \in Cells : concentration[c] < threshold},
             threshold_value |-> threshold]

\* concentration > threshold, or the ValueError of a None threshold.
detect_exceedances(thresholds, concentration, pollutant, threshold_level) ==
  LET pt    == PollutantThresholds(thresholds, pollutant)
      level == IF threshold_level \notin DOMAIN pt THEN "unhealthy"
               ELSE threshold_level
      threshold == IF level \in DOMAIN pt THEN pt[level] ELSE NoneThreshold
  IN IF threshold = NoneThreshold
       THEN [raised |-> TRUE, mask |-> {}, threshold_value |-> threshold]
       ELSE [raised |-> FALSE,
             mask |-> {c \in Cells : concentration[c] > threshold},
             threshold_value |-> threshold]

\* The cells a region of 4-connected pixels continues into.
Adj4(c) ==
  {<<c[1] - 1, c[2]>>, <<c[1] + 1, c[2]>>, <<c[1], c[2] - 1>>, <<c[1], c[2] + 1>>}

\* The cells that share an edge or a vertex with c.
Adj8(c) ==
  Adj4(c) \cup {<<c[1] - 1, c[2] - 1>>, <<c[1] - 1, c[2] + 1>>,
                <<c[1] + 1, c[2] - 1>>, <<c[1] + 1, c[2] + 1>>}

\* The cells of `within` reached from `frontier` by 4-steps (diag FALSE) or
\* by 8-steps (diag TRUE); `seen` are the cells reached before.
RECURSIVE Grow(_, _, _, _)
Grow(frontier, seen, within, diag) ==
  LET next == (UNION {IF diag THEN Adj8(c) ELSE Adj4(c) : c \in frontier})
                \cap (within \ seen)
  IN IF next = {} THEN seen ELSE Grow(next, seen \cup next, within, diag)

ScanIndex(c) == (c[1] - 1) * GridCols + c[2]

FirstCell(S) == CHOOSE c \in S : \A d \in S : ScanIndex(c) <= ScanIndex(d)

\* rasterio.features.shapes: one shape per 4-connected region of the mask,
\* in the order the raster scan meets them.
RECURSIVE Regions(_)
Regions(mask) ==
  IF mask = {} THEN <<>>
  ELSE LET region == Grow({FirstCell(mask)}, {FirstCell(mask)}, mask, FALSE)
       IN <<region>> \o Regions(mask \ region)

OnBorder(c) == c[1] \in {1, GridRows} \/ c[2] \in {1, GridCols}

\* Polygon(geom['coordinates'][0]): the exterior ring alone, so what the
\* ring encloses is covered as well.  Where a hole meets the outside at a
\* single vertex the ring may be emitted as touching itself there
\* (touch TRUE: the hole is outside the ring) or the hole as a ring of its
\* own (touch FALSE: it is dropped with the other interior rings).
ExteriorPolygon(region, touch) ==
  LET rest    == Cells \ region
      edge    == {c \in rest : OnBorder(c)}
      outside == Grow(edge, edge, rest, touch)
  IN Cells \ outside

\* The GeoDataFrame of a mask: a row per region, empty when the
\* vectorisation fails (the except branch).
create_exceedance_polygons(exceedance_mask, ok, touch) ==
  IF ~ok THEN <<>>
  ELSE LET regs == Regions(exceedance_mask)
       IN [i \in 1..Len(regs) |->
             [geometry |-> ExteriorPolygon(regs[i], touch),
              area_km2 |-> Cardinality(ExteriorPolygon(regs[i], touch))]]

Covered(gdf) == UNION {gdf[i].geometry : i \in 1..Len(gdf)}

\* gpd.overlay(gdf, other, how='difference'): each row less the union of
\* the other frame, the rows left empty dropped.
OverlayDifference(gdf, other) ==
  LET cut == [i \in 1..Len(gdf) |->
               [gdf[i] EXCEPT !.geometry = gdf[i].geometry \ Covered(other)]]
  IN SelectSeq(cut, LAMBDA row : row.geometry # {})

\* The overlay left out: the level keeps all of its polygons.
SubtractNothing(gdf, result, i) == gdf

\* for more_severe in result.keys(): ... over the levels stored so far, in
\* the order they were stored.
RECURSIVE SubtractMoreSevere(_, _, _)
SubtractMoreSevere(gdf, result, i) ==
  IF i > Len(severity_levels) THEN gdf
  ELSE LET more_severe == severity_levels[i]
       IN IF more_severe \in DOMAIN result
               /\ gdf # <<>> /\ result[more_severe] # <<>>
            THEN SubtractMoreSevere(
                   OverlayDifference(gdf, result[more_severe]), result, i + 1)
            ELSE SubtractMoreSevere(gdf, result, i + 1)

\* A level stored only when it has polygons.
StoreNonEmpty(result, level, gdf) ==
  IF gdf = <<>> THEN result
  ELSE [k \in DOMAIN result \cup {level} |-> IF k = level THEN gdf ELSE result[k]]

\* result[level] = gdf, or the empty frame
Store(result, level, gdf) ==
  [k \in DOMAIN result \cup {level} |-> IF k = level THEN gdf ELSE result[k]]

\* The loop of identify_threshold_exceedances from level i on.
RECURSIVE IdentifyFrom(_, _, _, _, _, _, _)
IdentifyFrom(thresholds, pollutant, concentration, ok, touch, i, result) ==
  IF i > Len(severity_levels) THEN [raised |-> FALSE, result |-> result]
  ELSE
    LET level == severity_levels[i]
        pt    == PollutantThresholds(thresholds, pollutant)
    IN IF level \notin DOMAIN pt
         THEN IdentifyFrom(thresholds, pollutant, concentration, ok, touch,
                           i + 1, result)
         ELSE
           LET det == detect_exceedances(thresholds, concentration,
                                         pollutant, level)
               gdf == create_exceedance_polygons(det.mask, ok, touch)
               tagged == [j \in 1..Len(gdf) |->
                           [geometry  |-> gdf[j].geometry,
                            area_km2  |-> gdf[j].area_km2,
                            threshold |-> det.threshold_value,
                            level     |-> level,
                            pollutant |-> pollutant]]
           IN IF det.raised THEN [raised |-> TRUE, result |-> result]
              ELSE IdentifyFrom(thresholds, pollutant, concentration, ok,
                                touch, i + 1,
                                Store(result, level,
                                      IF gdf # <<>>
                                        THEN SubtractMoreSevere(tagged, result, 1)
                                        ELSE <<>>))

\* except Exception: return {}
identify_threshold_exceedances(thresholds, pollutant, concentration, ok, touch) ==
  LET run == IdentifyFrom(thresholds, pollutant, concentration, ok, touch,
                          1, EmptyMap)
  IN IF run.raised THEN EmptyMap ELSE run.result

\* ---------------------------------------------------------------- geometry
\* Coordinates are in hundredths of a degree.  x is the longitude and y the
\* latitude of a geometry, as in the POINT(longitude latitude) the station
\* and user locations are stored as.
NoCoordinates == <<>>

\* The value a None center_latitude or center_longitude is modelled by.
NoneCoordinate == -1

\* A row whose geometry is None: it has neither a centroid nor a wkt.
NoGeometry == [kind |-> "none"]

\* A NULL location column.
NoLocation == [kind |-> "null"]

PointAt(x, y) == [kind |-> "point", x |-> x, y |-> y]

Box(minx, miny, maxx, maxy) ==
  [kind |-> "polygon", minx |-> minx, miny |-> miny, maxx |-> maxx, maxy |-> maxy]

\* hasattr(affected_area, 'centroid'), hasattr(affected_area, 'wkt')
HasGeometry(affected_area) == affected_area.kind # "none"

\* (centroid.y, centroid.x)
Centroid(affected_area) ==
  <<(affected_area.miny + affected_area.maxy) \div 2,
    (affected_area.minx + affected_area.maxx) \div 2>>

\* shapely's Point(coordinates): the first coordinate is x, the second y.
Point(coordinates) == PointAt(coordinates[1], coordinates[2])

Buffer(center_point, radius) ==
  [kind |-> "circle", x |-> center_point.x, y |-> center_point.y, r |-> radius]

ST_Intersects(location, area) ==
  IF location.kind # "point" THEN FALSE
  ELSE IF area.kind = "polygon"
    THEN /\ area.minx <= location.x /\ location.x <= area.maxx
         /\ area.miny <= location.y /\ location.y <= area.maxy
  ELSE IF area.kind = "circle"
    THEN (location.x - area.x) * (location.x - area.x)
           + (location.y - area.y) * (location.y - area.y) <= area.r * area.r
  ELSE FALSE

Range(seq) == {seq[i] : i \in 1..Len(seq)}

RECURSIVE Sum(_, _)
Sum(f, S) ==
  IF S = {} THEN 0
  ELSE LET x == CHOOSE x \in S : TRUE IN f[x] + Sum(f, S \ {x})

Min(S) == CHOOSE x \in S : \A y \in S : x <= y

\* Some element of the set, the greatest or not.
AnyOf(S) == CHOOSE x \in S : TRUE

Max(S) == CHOOSE x \in S : \A y \in S : y <= x

\* ------------------------------------------------------------ AlertTrigger
\* The rows of the monitoring_stations table: two stations near each other
\* and one on the equator, whose latitude is falsy.
Stations ==
  { [id |-> 1, latitude |-> 20, longitude |-> 60],
    [id |-> 2, latitude |-> 24, longitude |-> 64],
    [id |-> 3, latitude |-> 0,  longitude |-> 60] }

\* The rows of the pollutant_readings table: the value of one pollutant
\* column (the other columns are None) and the age of the row in hours.
Readings ==
  { [station_id |-> 1, pollutant |-> "pm25", value |-> 2000, age |-> 0],
    [station_id |-> 2, pollutant |-> "pm25", value |-> 3000, age |-> 3],
    [station_id |-> 2, pollutant |-> "pm25", value |-> 1000, age |-> 0],
    [station_id |-> 3, pollutant |-> "no2",  value |-> 500,  age |-> 0] }

\* timedelta(hours=1)
RecentHours == 1

\* radius_degrees = 0.05
radius_degrees == 5

\* Exceedance polygons: one around stations 1 and 2, one that holds no
\* station and is the first mirrored in the diagonal.
Polygons == {Box(50, 10, 70, 30), Box(10, 50, 30, 70)}

Geometries == Polygons \cup {NoGeometry}

\* Where a user lives or works: in the first polygon (at station 1), in the
\* second polygon, or nowhere.
Locations == {PointAt(60, 20), PointAt(20, 60), NoLocation}

UserRecords ==
  [home_location : Locations, work_location : Locations, is_active : BOOLEAN]

\* AlertTrigger.severity_levels
severity_mapping ==
  [hazardous |-> 5, very_unhealthy |-> 4, unhealthy |-> 3,
   unhealthy_sensitive |-> 2, moderate |-> 1, good |-> 0]

\* self.severity_levels.get(level_name, 3)
Severity(level_name) ==
  IF level_name \in DOMAIN severity_mapping THEN severity_mapping[level_name]
  ELSE 3

\* The stations the first query of _get_current_max_value returns: those in
\* the area, or all of them when the area has no wkt or the spatial query
\* raises.
StationsIn(affected_area, stations, spatial) ==
  IF HasGeometry(affected_area) /\ spatial
    THEN {s \in stations :
            ST_Intersects(PointAt(s.longitude, s.latitude), affected_area)}
    ELSE stations

StationCoordinates(stations, station_id) ==
  LET s == CHOOSE s \in stations : s.id = station_id
  IN IF s.latitude # 0 /\ s.longitude # 0 THEN <<s.latitude, s.longitude>>
     ELSE NoCoordinates

\* _get_current_max_value: the pairs (max_value, center_coordinates) the call
\* may return; more than one when several stations hold the maximum and the
\* center falls to the first of them the query returns.  usable is FALSE
\* when every statement on the session raises.
get_current_max_value(pollutant, affected_area, stations, readings, spatial, usable) ==
  LET centroid == IF HasGeometry(affected_area) THEN Centroid(affected_area)
                  ELSE NoCoordinates
      found    == StationsIn(affected_area, stations, spatial)
      valid    == {s \in found : s.latitude # 0 /\ s.longitude # 0}
      center   == IF centroid = NoCoordinates /\ valid # {}
                    THEN <<Sum([s \in valid |-> s.latitude], valid)
                             \div Cardinality(valid),
                           Sum([s \in valid |-> s.longitude], valid)
                             \div Cardinality(valid)>>
                    ELSE centroid
      recent   == {r \in readings : /\ r.station_id \in {s.id : s \in found}
                                    /\ r.age <= RecentHours}
      values   == {r.value : r \in {q \in recent : q.pollutant = pollutant}}
      max_value == Max(values \cup {0})
      max_stations == {r.station_id :
                         r \in {q \in recent : /\ q.pollutant = pollutant
                                               /\ q.value = max_value}}
  IN IF ~usable THEN {<<0, NoCoordinates>>}
     ELSE IF found = {} THEN {<<0, centroid>>}
     ELSE IF max_value > 0 /\ center = NoCoordinates
       THEN {<<max_value, StationCoordinates(stations, sid)>> : sid \in max_stations}
     ELSE {<<max_value, center>>}

\* affected_area.wkt, the buffered circle when the area has none, or
\* NoGeometry when there is no center either (return None).
AffectedAreaWkt(affected_area, center_coordinates) ==
  IF HasGeometry(affected_area) THEN affected_area
  ELSE IF center_coordinates # NoCoordinates
    THEN Buffer(Point(center_coordinates), radius_degrees)
  ELSE NoGeometry

\* The clock advances by at most MaxTick between two reads of it, which is
\* less than an hour.
HourTicks == MaxTick + 1

DefaultExpiryHours == 6

\* The configurations AlertTrigger is constructed with: ALERT_EXPIRY_HOURS
\* is any integer of the environment, and the Settings carry a
\* default_radius_km of 25 km, kept in tenths.
Configs ==
  {EmptyMap, [alert_expiry_hours |-> 1], [alert_expiry_hours |-> 0],
   [alert_expiry_hours |-> 1, default_radius_km |-> 250]}

\* The expiry read without the configuration.
default_expiry_hours(config) == DefaultExpiryHours

\* self.config.get('alert_expiry_hours', 6)
alert_expiry_hours(config) ==
  IF "alert_expiry_hours" \in DOMAIN config THEN config["alert_expiry_hours"]
  ELSE DefaultExpiryHours

\* datetime.now() + timedelta(hours=...)
plus_hours(now, hours) == now + hours * HourTicks

\* Alert(...); impact_radius_km = severity_level * 2.5 is kept in tenths.
\* One radius for every severity level.
flat_radius_km(severity_level) == 25

\* severity_level * 2.5, in tenths of a km.
impact_radius_km(severity_level) == severity_level * 25

Alert(id, pollutant, severity_level, affected_area_wkt, threshold_value, current_value, center_coordinates, created_at, expires_at) ==
  [id |-> id,
   alert_type |-> "pollution",
   severity_level |-> severity_level,
   affected_area |-> affected_area_wkt,
   center_latitude |-> IF center_coordinates = NoCoordinates THEN NoneCoordinate
                       ELSE center_coordinates[1],
   center_longitude |-> IF center_coordinates = NoCoordinates THEN NoneCoordinate
                        ELSE center_coordinates[2],
   impact_radius_km |-> impact_radius_km(severity_level),
   pollutant |-> pollutant,
   threshold_value |-> threshold_value,
   current_value |-> current_value,
   created_at |-> created_at,
   expires_at |-> expires_at,
   is_active |-> TRUE]

\* The log entry of a row no Alert was created for.
NoAlert == [id |-> 0]

RECURSIVE IdsFrom(_, _, _)
IdsFrom(i, n, S) ==
  IF i > n THEN <<>>
  ELSE (IF i \in S THEN <<i>> ELSE <<>>) \o IdsFrom(i + 1, n, S)

\* select(User).where(ST_Intersects(User.home_location, alert.affected_area))
home_users(users, area) ==
  IdsFrom(1, Len(users),
          {i \in DOMAIN users : ST_Intersects(users[i].home_location, area)})

\* select(User).where(ST_Intersects(User.work_location, alert.affected_area))
work_users(users, area) ==
  IdsFrom(1, Len(users),
          {i \in DOMAIN users : ST_Intersects(users[i].work_location, area)})

\* {u.id: u for u in all_users}.values()
RECURSIVE unique_users(_)
unique_users(all_users) ==
  IF all_users = <<>> THEN <<>>
  ELSE LET front == unique_users(SubSeq(all_users, 1, Len(all_users) - 1))
           last  == all_users[Len(all_users)]
       IN IF last \in Range(front) THEN front ELSE Append(front, last)

\* Every notification tagged 'home'.
location_type_home(user, home) == "home"

\* 'home' if user in home_users else 'work'
location_type(user, home) ==
  IF user \in Range(home) THEN "home" ELSE "work"

\* The Notification rows _notify_affected_users adds for an alert.
create_notifications(alert_id, users, area) ==
  LET home   == home_users(users, area)
      work   == work_users(users, area)
      active == SelectSeq(unique_users(home \o work),
                          LAMBDA u : users[u].is_active)
  IN [k \in 1..Len(active) |->
        [alert_id |-> alert_id,
         user_id |-> active[k],
         message |-> "",
         delivery_channel |-> "pending",
         location_type |-> location_type(active[k], home)]]

\* A flush that commits: the rows become durable at once.
flush_and_commit(pending, txn, durable) ==
  [txn |-> <<>>, durable |-> durable \o txn \o pending]

\* session.add(...) and session.flush(): the rows are written inside the
\* session's open transaction.
flush(pending, txn, durable) ==
  [txn |-> txn \o pending, durable |-> durable]

\* The first row at or after row j of entry i, the entries with an empty
\* frame skipped (len(gdf) == 0: continue); past the last entry when there
\* is none.
RECURSIVE FirstRowFrom(_, _, _)
FirstRowFrom(exceedance_data, i, j) ==
  IF i > Len(exceedance_data) THEN <<i, 1>>
  ELSE IF j <= Len(exceedance_data[i].gdf) THEN <<i, j>>
  ELSE FirstRowFrom(exceedance_data, i + 1, 1)

\* ----------------------------------------------------------- DispersionModel
\* Wind directions are whole degrees and the multiples of 90 among them;
\* wind speeds are tenths of a m/s.
Directions == {0, 270}
Speeds == {0, 36}

\* The wind series of a call: any series of at most MaxSteps + 1 values.
SeriesOver(values) == UNION {[1..n -> values] : n \in 0..(MaxSteps + 1)}

Cos(degrees) == CASE degrees = 0 -> 1 [] degrees = 90 -> 0 [] degrees = 180 -> -1 [] degrees = 270 -> 0

Sin(degrees) == CASE degrees = 0 -> 0 [] degrees = 90 -> 1 [] degrees = 180 -> 0 [] degrees = 270 -> -1

\* The grid the prediction starts from.
InitialGrid == [op |-> "initial"]

\* scipy.ndimage.shift(current, [dy, dx], order=1, mode='constant', cval=0);
\* dy and dx are kept in 36ths of a cell.
shift(current, dy, dx) == [op |-> "shift", of |-> current, dy |-> dy, dx |-> dx]

\* scipy.ndimage.gaussian_filter(shifted, sigma); sigma is kept in tenths.
gaussian_filter(shifted, sigma) == [op |-> "gaussian_filter", of |-> shifted, sigma |-> sigma]

\* diffused * decay_rate; the rate is kept in hundredths.
decay_rate == 95

\* The diffused grid itself, no decay applied.
undecayed(diffused) == diffused

decayed(diffused) == [op |-> "decay", of |-> diffused, rate |-> decay_rate]

hours_per_step == 1

\* One pass of the loop of predict_dispersion.
dispersion_step(current, direction, speed) ==
  LET direction_rad == (270 - direction) % 360
      dx == speed * Cos(direction_rad) * hours_per_step
      dy == speed * Sin(direction_rad) * hours_per_step
      sigma == 10 + 2 * speed
  IN decayed(gaussian_filter(shift(current, dy, dx), sigma))

\* The sum of the cells of a grid, as a fraction num / den of the sum of the
\* cells of the initial grid.  A shift by [0, 0] returns its input; any other
\* shift fills with cval = 0 and may push mass over the edge, and the
\* fraction is then an upper bound only (exact is FALSE).  gaussian_filter
\* has a kernel of sum 1 and the default mode 'reflect', which folds what
\* the kernel spreads over an edge back into the grid.  The decay multiplies
\* every cell by rate / 100.
RECURSIVE mass(_)
mass(grid) ==
  CASE grid.op = "initial" -> [num |-> 1, den |-> 1, exact |-> TRUE]
    [] grid.op = "shift" ->
         [mass(grid.of) EXCEPT !.exact = @ /\ grid.dy = 0 /\ grid.dx = 0]
    [] grid.op = "gaussian_filter" -> mass(grid.of)
    [] grid.op = "decay" ->
         [mass(grid.of) EXCEPT !.num = @ * grid.rate, !.den = @ * 100]

\* The first entry of the series, whatever the step.
wind_first(series, i) == series[1]

\* wind_directions[i], wind_speeds[i]; i counts from 0.
wind_at(series, i) == series[i + 1]

\* The series does not have exactly one entry per step.
length_differs(series, time_steps) == Len(series) # time_steps

\* len(series) < self.time_steps
too_short(series, time_steps) == Len(series) < time_steps

\* concentration_grids after i passes of the loop.
RECURSIVE grids_after(_, _, _, _)
grids_after(initial_concentration, wind_directions, wind_speeds, i) ==
  IF i = 0 THEN <<initial_concentration>>
  ELSE LET before == grids_after(initial_concentration, wind_directions, wind_speeds, i - 1)
       IN Append(before, dispersion_step(before[i], wind_at(wind_directions, i - 1),
                                         wind_at(wind_speeds, i - 1)))

\* predict_dispersion: the grids returned, or the ValueError raised again.
predict_dispersion(initial_concentration, wind_directions, wind_speeds, time_steps) ==
  IF too_short(wind_directions, time_steps) \/ too_short(wind_speeds, time_steps)
    THEN [raised |-> TRUE, grids |-> <<>>]
    ELSE [raised |-> FALSE,
          grids |-> grids_after(initial_concentration, wind_directions, wind_speeds,
                                time_steps)]

\* The array object the caller passes as initial_concentration.
caller_array == <<0, 0>>

\* The array objects of concentration_grids: the list starts as
\* [initial_concentration], the caller's own array, and every pass appends
\* the new array diffused * decay_rate.  The array <<call, 0>> is
\* initial_concentration.copy(), which only the first shift reads.
grid_objects(call, time_steps) ==
  [k \in 1..(time_steps + 1) |-> IF k = 1 THEN caller_array ELSE <<call, k - 1>>]

\* An assignment into an array by whoever holds it.
written(content) == [op |-> "written", of |-> content]

\* The draws generate_wind_forecast takes from numpy's global random state:
\* one for the direction and one for the speed of every step.
forecast_draws(n_steps) == 2 * n_steps

\* The draws predict_dispersion takes.
prediction_draws(n_steps) == 0

\* What np.random.normal(0, 15) and np.random.normal(0, 0.5) may return, to
\* the quarter turn and to the tenth of a m/s.
DirectionChanges == {0, 90}
SpeedChanges == {-36, 0}

\* generate_wind_forecast(base_direction, base_speed, hours) for one step:
\* the forecasts it may return, the random state not being seeded.
generate_wind_forecast(base_direction, base_speed) ==
  {[directions |-> <<(base_direction + dir_change) % 360>>,
    speeds |-> <<Max({5, base_speed + speed_change})>>] :
     dir_change \in DirectionChanges, speed_change \in SpeedChanges}

\* ------------------------------------------ check_threshold_exceedances_task
RECURSIVE Product(_, _)
Product(f, S) ==
  IF S = {} THEN 1
  ELSE LET x == CHOOSE x \in S : TRUE IN f[x] * Product(f, S \ {x})

\* The (PollutantReading, MonitoringStation) rows of the join: for each
\* station its readings with the greatest timestamp.
LatestReadings(readings, stations) ==
  {row \in readings \X stations :
     /\ row[1].station_id = row[2].id
     /\ \A q \in readings : q.station_id = row[1].station_id => row[1].age <= q.age}

\* The rows handed to the interpolation: one per latest reading whose value
\* for the pollutant is not None.
TaskData(pollutant, rows) ==
  {[latitude |-> row[2].latitude, longitude |-> row[2].longitude,
    value |-> row[1].value] : row \in {q \in rows : q[1].pollutant = pollutant}}

\* self.resolution * 10, in cells of the 0.01-degree grid
PaddingCells == 10

\* np.arange(minx, maxx, self.resolution)
GridXs(data) ==
  (Min({d.longitude : d \in data}) - PaddingCells)
    .. (Max({d.longitude : d \in data}) + PaddingCells - 1)

\* np.arange(miny, maxy, self.resolution)
GridYs(data) ==
  (Min({d.latitude : d \in data}) - PaddingCells)
    .. (Max({d.latitude : d \in data}) + PaddingCells - 1)

\* The square of the distance from the grid point <<y, x>> to a sample.
SqDist(cell, d) ==
  (cell[2] - d.longitude) * (cell[2] - d.longitude)
    + (cell[1] - d.latitude) * (cell[1] - d.latitude)

\* _idw_interpolation at one grid point, idw_power 2, as the fraction
\* num / den: the sample's value where the point matches a sample, the
\* mean weighted by 1 / distance^2 elsewhere.
idw_interpolation(data, cell) ==
  IF \E d \in data : SqDist(cell, d) = 0
    THEN [num |-> (CHOOSE d \in data : SqDist(cell, d) = 0).value, den |-> 1]
    ELSE LET others(d) == data \ {d}
             weight(d) == Product([e \in others(d) |-> SqDist(cell, e)], others(d))
         IN [num |-> Sum([d \in data |-> d.value * weight(d)], data),
             den |-> Sum([d \in data |-> weight(d)], data)]

\* SpatialInterpolator.interpolate: the grid around the samples.
interpolate(data) ==
  [cell \in GridYs(data) \X GridXs(data) |-> idw_interpolation(data, cell)]

\* ThresholdAnalyzer({}).thresholds
AnalyzerThresholds ==
  [pm25 |-> 350, pm10 |-> 500, o3 |-> 1000, no2 |-> 400, so2 |-> 200, co |-> 40]

\* ThresholdAnalyzer.identify_threshold_exceedances: raster > threshold, a
\* boolean array of the raster's shape.
analyzer_exceedances(pollutant, raster) ==
  [cell \in DOMAIN raster |->
     raster[cell].num > AnalyzerThresholds[pollutant] * raster[cell].den]

\* bool(array) raises ValueError for an array of more than one element.
TruthValueAmbiguous(array) == Cardinality(DOMAIN array) > 1

\* ------------------------------------------------------ SpatialInterpolator
AVAILABLE_METHODS == <<"idw", "rbf", "linear", "cubic", "nearest", "kriging">>

\* method=None, and a configuration without 'default_method'.
NoneMethod == "None"

\* The value np.isnan holds of.
NaN == -2

\* The rows of points_gdf: a point, in hundredths of a degree, and the value
\* of the column, in tenths; the third row's value is missing.
SampleRows ==
  { [x |-> 60, y |-> 20, value |-> 2000],
    [x |-> 64, y |-> 24, value |-> 1000],
    [x |-> 90, y |-> 50, value |-> NaN] }

\* points_gdf: a frame of at most MaxSamples rows.
Frames == UNION {[1..n -> SampleRows] : n \in 0..MaxSamples}

\* The configured default taken as it is.
unvalidated_default(configured) ==
  IF configured = NoneMethod THEN "idw" ELSE configured

\* SpatialInterpolator.__init__: config.get('default_method', 'idw'), and
\* 'idw' in place of a method that is not available.
validated_default(configured) ==
  IF configured = NoneMethod THEN "idw"
  ELSE IF configured \notin Range(AVAILABLE_METHODS) THEN "idw"
  ELSE configured

\* Every row of the frame, its value missing or not.
all_samples(points_gdf) == points_gdf

\* x[valid_indices], y[valid_indices], z[valid_indices]
valid_samples(points_gdf) == SelectSeq(points_gdf, LAMBDA row : row.value # NaN)

\* The bounds of the output raster when none are given.
raster_bounds(samples) ==
  [minx |-> Min({samples[i].x : i \in 1..Len(samples)}) - PaddingCells,
   miny |-> Min({samples[i].y : i \in 1..Len(samples)}) - PaddingCells,
   maxx |-> Max({samples[i].x : i \in 1..Len(samples)}) + PaddingCells,
   maxy |-> Max({samples[i].y : i \in 1..Len(samples)}) + PaddingCells]

\* What a backend computes from the samples on the grid of the bounds.
grid_of(backend, samples) ==
  [backend |-> backend, samples |-> samples, bounds |-> raster_bounds(samples)]

NoGrid == [backend |-> "none"]

\* _rbf_interpolation: the grid of scipy's Rbf, or its exception.
rbf_interpolation(samples, rbf_ok) ==
  IF rbf_ok THEN [raised |-> FALSE, zi |-> grid_of("rbf", samples), rbf_calls |-> 1]
  ELSE [raised |-> TRUE, zi |-> NoGrid, rbf_calls |-> 1]

\* The fallback taken again when it has failed.
kriging_retrying_rbf(samples, pykrige, rbf_ok) ==
  IF pykrige = "works"
    THEN [raised |-> FALSE, zi |-> grid_of("kriging", samples), rbf_calls |-> 0]
    ELSE IF rbf_ok THEN rbf_interpolation(samples, rbf_ok)
         ELSE [raised |-> TRUE, zi |-> NoGrid, rbf_calls |-> 2]

\* _kriging_interpolation: PyKrige's grid; _rbf_interpolation when PyKrige is
\* not installed ("missing") or raises ("fails").
kriging_interpolation(samples, pykrige, rbf_ok) ==
  IF pykrige = "works"
    THEN [raised |-> FALSE, zi |-> grid_of("kriging", samples), rbf_calls |-> 0]
    ELSE rbf_interpolation(samples, rbf_ok)

\* What interpolate returns when it raises.
InterpolationError(error, method) ==
  [raised |-> TRUE, error |-> error, zi |-> NoGrid, method |-> method,
   num_points |-> 0, rbf_calls |-> 0]

\* SpatialInterpolator.interpolate(points_gdf, value_column, None, method) on
\* an interpolator whose default_method is set.
interpolate_by(points_gdf, method, default_method, pykrige, rbf_ok, griddata_ok) ==
  LET applied == IF method = NoneMethod THEN default_method
                 ELSE IF method \notin Range(AVAILABLE_METHODS) THEN default_method
                 ELSE method
      samples == valid_samples(points_gdf)
      staged  == IF applied = "idw"
                   THEN [raised |-> FALSE, zi |-> grid_of("idw", samples), rbf_calls |-> 0]
                 ELSE IF applied = "rbf" THEN rbf_interpolation(samples, rbf_ok)
                 ELSE IF applied = "kriging"
                   THEN kriging_interpolation(samples, pykrige, rbf_ok)
                 ELSE IF griddata_ok /\ applied \in {"linear", "cubic", "nearest"}
                   THEN [raised |-> FALSE, zi |-> grid_of(applied, samples),
                         rbf_calls |-> 0]
                 ELSE [raised |-> TRUE, zi |-> NoGrid, rbf_calls |-> 0]
  IN IF points_gdf = <<>> THEN InterpolationError("ValueError", applied)
     ELSE IF samples = <<>> THEN InterpolationError("ValueError", applied)
     ELSE IF staged.raised
       THEN [InterpolationError("backend", applied) EXCEPT !.rbf_calls = staged.rbf_calls]
     ELSE [raised |-> FALSE, error |-> "none", zi |-> staged.zi, method |-> applied,
           num_points |-> Len(samples), rbf_calls |-> staged.rbf_calls]

\* ----------------------------------------------- the grid of interpolate
\* Rows for the cell-by-cell grid: the second row lies on another grid node,
\* the third at the first row's position with another value.
IdwRows ==
  { [x |-> 60, y |-> 20, value |-> 2000],
    [x |-> 62, y |-> 23, value |-> 1000],
    [x |-> 60, y |-> 20, value |-> 1000] }

\* Frames of one or two such rows.
IdwFrames == [1..1 -> IdwRows] \cup [1..2 -> IdwRows]

\* The square of the distance from the grid node (px, py) to a sample.
SqDistance(px, py, sample) ==
  (px - sample.x) * (px - sample.x) + (py - sample.y) * (py - sample.y)

\* The IDW formula at a node, idw_power 2, as the fraction num / den with
\* the weights brought to a common denominator; 0 / 0 where a distance is 0.
idw_formula(samples, px, py) ==
  LET K == 1..Len(samples)
      weight(k) == Product([m \in K \ {k} |-> SqDistance(px, py, samples[m])], K \ {k})
  IN IF \E k \in K : SqDistance(px, py, samples[k]) = 0
       THEN [num |-> 0, den |-> 0]
       ELSE [num |-> Sum([k \in K |-> samples[k].value * weight(k)], K),
             den |-> Sum([k \in K |-> weight(k)], K)]

\* The formula applied at every node, the matching nodes included.
idw_unguarded(samples, px, py) == idw_formula(samples, px, py)

\* One pass of the loops of _idw_interpolation: z[distances < 1e-8][0] where
\* the least distance is below 1e-8, the formula elsewhere.
idw_node(samples, px, py) ==
  LET K == 1..Len(samples)
      matching == {k \in K : SqDistance(px, py, samples[k]) = 0}
  IN IF matching # {}
       THEN [num |-> samples[Min(matching)].value, den |-> 1]
       ELSE idw_formula(samples, px, py)

\* np.arange(minx, maxx, resolution) and np.arange(miny, maxy, resolution),
\* as node counts: the grid's shape.
grid_shape(bounds) ==
  [rows |-> bounds.maxy - bounds.miny, cols |-> bounds.maxx - bounds.minx]

\* xi[i, j], yi[i, j] of np.meshgrid: row i lies at miny + i * resolution.
node_x(bounds, j) == bounds.minx + j

node_y(bounds, i) == bounds.miny + i

\* zi of method 'idw', by <<row, column>>, rows and columns counted from 0.
idw_grid(samples) ==
  LET bounds == raster_bounds(samples)
      shape  == grid_shape(bounds)
  IN [cell \in (0..(shape.rows - 1)) \X (0..(shape.cols - 1)) |->
        idw_node(samples, node_x(bounds, cell[2]), node_y(bounds, cell[1]))]

\* from_origin(minx, maxy, resolution, resolution): west, north and the
\* cell sizes of the transform.
from_origin(west, north, xsize, ysize) ==
  [west |-> west, north |-> north, xsize |-> xsize, ysize |-> ysize]

\* The <<row, column>> of the cell the transform places (x, y) in:
\* rasterio's rowcol, floor((north - y) / ysize), floor((x - west) / xsize).
rowcol(transform, x, y) ==
  <<(transform.north - y) \div transform.ysize,
    (x - transform.west) \div transform.xsize>>

\* --------------------------------------------------------- DataIntegrator
\* if count % 50 == 0 in _store_stations, if count % 100 == 0 in
\* _store_readings.
stations_commit_every == 50

readings_commit_every == 100

\* A record of a fetched batch: one the loop adds ("new"), one it updates
\* ("existing"), or one it leaves with `continue` ("skipped": no id, no
\* station for the code, no or an unreadable timestamp).
RecordKinds == {"new", "existing", "skipped"}

\* The batches a fetcher returns: none, or one of the longest lengths, its
\* first record of any kind and the others new.
Batch(n, first_kind) == [i \in 1..n |-> IF i = 1 THEN first_kind ELSE "new"]

BatchesUpTo(longest) ==
  {<<>>} \cup {Batch(n, kind) : n \in (longest - 2)..longest, kind \in RecordKinds}

\* The position, among the records of a call and its final commit, from
\* which the store is unavailable: 0 when it stays available, 1 when it was
\* lost before the call.  The calls before it took `offset` positions.
down_within(down_from, offset) ==
  IF down_from = 0 THEN 0
  ELSE IF down_from <= offset THEN 1
  ELSE down_from - offset

NoTally == [count |-> 0, pending |-> 0, stored |-> 0]

\* One pass of the loop of _store_stations and of _store_readings, for the
\* record at position i: a skipped record is left; with the store
\* unavailable a statement of the record raises, which the inner except
\* logs before `continue`; otherwise the record is added or updated,
\* counted, and the session committed when the count is a multiple of
\* commit_every.
store_record(kind, i, commit_every, down_at, tally) ==
  LET down == down_at # 0 /\ i >= down_at
      counted == [tally EXCEPT !.count = @ + 1, !.pending = @ + 1]
  IN IF kind = "skipped" THEN tally
     ELSE IF down THEN tally
     ELSE IF counted.count % commit_every = 0
       THEN [counted EXCEPT !.stored = @ + counted.pending, !.pending = 0]
     ELSE counted

\* The passes for the records first..last, in their order: those of the
\* first half of the range are completed before those of the second.
RECURSIVE store_loop(_, _, _, _, _, _)
store_loop(records, first, last, commit_every, down_at, tally) ==
  IF first > last THEN tally
  ELSE IF first = last
    THEN store_record(records[first], first, commit_every, down_at, tally)
  ELSE LET half   == (first + last) \div 2
           before == store_loop(records, first, half, commit_every, down_at, tally)
       IN IF before.count >= 0
            THEN store_loop(records, half + 1, last, commit_every, down_at, before)
          ELSE before

NoCount == -1

\* A call of _store_stations or _store_readings: the loop, then the final
\* commit and `return count`; when the final commit raises, the outer
\* except rolls back and returns 0, or lets the error of the rollback out.
\* stored is the number of records of the call the store holds afterwards.
store_records(records, commit_every, down_at, rollback_ok) ==
  LET tally == store_loop(records, 1, Len(records), commit_every, down_at, NoTally)
      down  == down_at # 0 /\ Len(records) + 1 >= down_at
  IN IF ~down
       THEN [raised |-> FALSE, returned |-> tally.count,
             stored |-> tally.stored + tally.pending]
     ELSE IF rollback_ok
       THEN [raised |-> FALSE, returned |-> 0, stored |-> tally.stored]
     ELSE [raised |-> TRUE, returned |-> NoCount, stored |-> tally.stored]

store_stations(records, down_at, rollback_ok) ==
  store_records(records, stations_commit_every, down_at, rollback_ok)

store_readings(records, down_at, rollback_ok) ==
  store_records(records, readings_commit_every, down_at, rollback_ok)

\* The call was not made.
NotCalled == [raised |-> FALSE, returned |-> NoCount, stored |-> 0]

\* ------------------------------------------------------------------- state
VARIABLES
  thresholds,      \* ThresholdDetector.thresholds
  pollutant,       \* the pollutant of the call
  concentration,   \* the grid of the call
  rasterOk,        \* whether the vectorisation backend works
  ringsTouch,      \* how a ring meeting itself at a vertex is emitted
  dpc,             \* "ready" | "done": position of the detector's caller
  exceedances,     \* what identify_threshold_exceedances returned
  raisedLevel,     \* the level whose threshold the last reconfiguration raised
  previous,        \* the result before that reconfiguration
  stations,        \* the monitoring_stations table
  readings,        \* the pollutant_readings table
  users,           \* the users table, by id
  spatialOk,       \* whether the database evaluates ST_Intersects
  storeErrorAt,    \* the flush of the session that hits a store error (0: none)
  outputOk,        \* whether the interpolation's output files can be written
  config,          \* the configuration AlertTrigger is constructed with
  tick,            \* what the clock advances by from one read to the next
  clock,           \* what datetime.now() returns next
  session,         \* "active" | "inactive" (rolled back by a failed flush) | "closed"
  flushes,         \* flushes the session has sent to the database
  txn_alerts,      \* alerts rows written in the open transaction
  txn_notifications, \* notifications rows written in the open transaction
  alerts,          \* the committed rows of the alerts table
  notifications,   \* the committed rows of the notifications table
  exceedance_data, \* the argument of process_exceedances
  tpc,             \* position of process_exceedances and of its caller
  cursor,          \* <<entry, row>> the loops of process_exceedances are at
  alert_ids,       \* the list process_exceedances returns
  log,             \* per row handled: what _create_alert and the fan-out did
  taskpc,          \* position of check_threshold_exceedances_task
  data,            \* the task's rows for the interpolation
  raster,          \* the interpolated grid
  task_return,     \* what the task returned
  request,         \* the pollutant parameter of POST /check_alerts
  response,        \* what check_alerts answered
  background_tasks, \* the pollutants of the tasks added and not yet run
  batch_log,       \* the tasks run, in order, with their session and outcome
  raising,         \* the pollutants whose task raises outside its try
  initial_concentration, \* the grid predict_dispersion is called with
  wind_directions, \* the wind directions it is called with
  wind_speeds,     \* the wind speeds it is called with
  time_steps,      \* DispersionModel.time_steps
  predictions,     \* the calls of predict_dispersion made, with their results
  forecasts,       \* the calls of generate_wind_forecast made, with their results
  draws,           \* the draws taken from numpy's global random state
  points_gdf,      \* the frame interpolate is called with
  method,          \* the method it is called with
  configured,      \* the 'default_method' of the interpolator's configuration
  default_method,  \* SpatialInterpolator.default_method
  pykrige,         \* "works" | "fails" | "missing": the kriging backend
  rbf_ok,          \* whether scipy's Rbf succeeds on the samples
  griddata_ok,     \* whether scipy's griddata succeeds on the samples
  interpolation,   \* what interpolate returned or raised
  zi,              \* the grid of interpolate, by <<row, column>>
  transform,       \* the transform interpolate returned with it
  fetched_stations,  \* the stations fetcher.fetch_data() returned
  fetched_readings,  \* the readings fetcher.fetch_data() returned
  down_from,       \* the position from which the store is unavailable
  rollback_ok,     \* whether a rollback on the unavailable store returns
  cpc,             \* where collect_and_store_data is
  stored_stations, \* what _store_stations returned or raised
  stored_readings, \* what _store_readings returned or raised
  results          \* the counts collect_and_store_data returns

detectorVars == <<thresholds, concentration, rasterOk, ringsTouch, dpc,
                  raisedLevel, previous>>

worldVars == <<stations, readings, users, spatialOk, storeErrorAt, outputOk,
               config, tick>>

dbVars == <<session, flushes, txn_alerts, txn_notifications, alerts,
            notifications>>

triggerVars == <<exceedance_data, tpc, cursor, alert_ids, log>>

taskVars == <<taskpc, data, raster, task_return>>

apiVars == <<request, response, background_tasks, batch_log, raising>>

dispersionVars == <<initial_concentration, wind_directions, wind_speeds,
                    time_steps, predictions, forecasts, draws>>

interpolatorVars == <<points_gdf, method, configured, default_method, pykrige,
                      rbf_ok, griddata_ok, interpolation>>

gridVars == <<zi, transform>>

integratorVars == <<fetched_stations, fetched_readings, down_from, rollback_ok,
                    cpc, stored_stations, stored_readings, results>>

vars == <<pollutant, exceedances, clock, detectorVars, worldVars, dbVars,
          triggerVars, taskVars, apiVars, dispersionVars, interpolatorVars,
          gridVars, integratorVars>>

NoLevel == "none"

\* No detector call is under way.
DetectorIdle ==
  /\ thresholds = DEFAULT_THRESHOLDS
  /\ concentration = [c \in Cells |-> LoValue]
  /\ rasterOk = TRUE
  /\ ringsTouch = TRUE
  /\ dpc = "idle"
  /\ raisedLevel = NoLevel
  /\ previous = EmptyMap

\* A new session on a database without alerts.
NewSession ==
  /\ session = "active"
  /\ flushes = 0
  /\ txn_alerts = <<>>
  /\ txn_notifications = <<>>
  /\ alerts = <<>>
  /\ notifications = <<>>

\* The default configuration, and a clock that advances at every read.
ClockStart ==
  /\ config = EmptyMap
  /\ tick = MaxTick
  /\ clock = 0

\* No request is being served.
NoRequest == "no request"

NoResponse == [status |-> 0]

ApiIdle ==
  /\ request = NoRequest
  /\ response = NoResponse
  /\ background_tasks = <<>>
  /\ batch_log = <<>>
  /\ raising = {}

\* No DispersionModel is in use.
DispersionIdle ==
  /\ initial_concentration = InitialGrid
  /\ wind_directions = <<>>
  /\ wind_speeds = <<>>
  /\ time_steps = 0
  /\ predictions = <<>>
  /\ forecasts = <<>>
  /\ draws = 0

\* No interpolator is constructed.
Unset == "unset"

NoInterpolation == [raised |-> FALSE, error |-> "not called"]

InterpolatorIdle ==
  /\ points_gdf = <<>>
  /\ method = NoneMethod
  /\ configured = NoneMethod
  /\ default_method = Unset
  /\ pykrige = "works"
  /\ rbf_ok = TRUE
  /\ griddata_ok = TRUE
  /\ interpolation = NoInterpolation

\* No grid is computed.
NoTransform == [west |-> 0, north |-> 0, xsize |-> 0, ysize |-> 0]

GridIdle ==
  /\ zi = EmptyMap
  /\ transform = NoTransform

NoResults == [stations |-> 0, readings |-> 0, weather |-> 0]

\* No collection is under way.
IntegratorIdle ==
  /\ fetched_stations = <<>>
  /\ fetched_readings = <<>>
  /\ down_from = 0
  /\ rollback_ok = TRUE
  /\ cpc = "idle"
  /\ stored_stations = NotCalled
  /\ stored_readings = NotCalled
  /\ results = NoResults

\* process_exceedances is not called.
TriggerIdle ==
  /\ exceedance_data = <<>>
  /\ tpc = "idle"
  /\ cursor = <<1, 1>>
  /\ alert_ids = <<>>
  /\ log = <<>>

\* The task is not started.
TaskIdle ==
  /\ taskpc = "idle"
  /\ data = {}
  /\ raster = EmptyMap
  /\ task_return = EmptyMap

InitDetect ==
  /\ thresholds \in ThresholdTables
  /\ pollutant \in Pollutants
  /\ concentration \in Grids
  /\ rasterOk \in BOOLEAN
  /\ ringsTouch \in BOOLEAN
  /\ dpc = "ready"
  /\ exceedances = EmptyMap
  /\ raisedLevel = NoLevel
  /\ previous = EmptyMap
  /\ stations = {}
  /\ readings = {}
  /\ users = <<>>
  /\ spatialOk = TRUE
  /\ storeErrorAt = 0
  /\ outputOk = TRUE
  /\ NewSession
  /\ InterpolatorIdle
  /\ GridIdle
  /\ IntegratorIdle
  /\ DispersionIdle
  /\ ApiIdle
  /\ ClockStart
  /\ TriggerIdle
  /\ TaskIdle

\* identify_threshold_exceedances(pollutant, concentration, transform)
Identify ==
  /\ dpc = "ready"
  /\ exceedances' = identify_threshold_exceedances(
                      thresholds, pollutant, concentration, rasterOk, ringsTouch)
  /\ dpc' = "done"
  /\ UNCHANGED <<thresholds, pollutant, concentration, rasterOk, ringsTouch,
                 raisedLevel, previous,
                 gridVars,
                 integratorVars>>
  /\ UNCHANGED <<worldVars, clock, dbVars, triggerVars, taskVars, apiVars, dispersionVars,
                 interpolatorVars,
                 gridVars,
                 integratorVars>>

\* The table the call reads its thresholds from, one level's threshold
\* replaced.
WithThreshold(table, p, level, value) ==
  LET key == IF p \in DOMAIN table THEN p ELSE "aqi"
  IN [table EXCEPT ![key] = [@ EXCEPT ![level] = value]]

\* A detector built with config['thresholds'] overriding one level by a
\* larger threshold, run on the same grid.
Reconfigure ==
  /\ dpc = "done"
  /\ raisedLevel = NoLevel
  /\ \E i \in 1..Len(severity_levels), value \in Values \cup {HiValue + 1} :
       LET level == severity_levels[i]
           pt    == PollutantThresholds(thresholds, pollutant)
       IN /\ level \in DOMAIN pt
          /\ pt[level] # NoneThreshold
          /\ value > pt[level]
          /\ thresholds' = WithThreshold(thresholds, pollutant, level, value)
          /\ raisedLevel' = level
  /\ previous' = exceedances
  /\ exceedances' = identify_threshold_exceedances(
                      thresholds', pollutant, concentration, rasterOk, ringsTouch)
  /\ UNCHANGED <<pollutant, concentration, rasterOk, ringsTouch, dpc,
                 gridVars,
                 integratorVars>>
  /\ UNCHANGED <<worldVars, clock, dbVars, triggerVars, taskVars, apiVars, dispersionVars,
                 interpolatorVars,
                 gridVars,
                 integratorVars>>

NextDetect == Identify

SpecDetect == InitDetect /\ [][NextDetect]_vars

NextMono == Identify \/ Reconfigure

SpecMono == InitDetect /\ [][NextMono]_vars

\* ------------------------------------------------- process_exceedances
\* The level names of the entries of exceedance_data, in the order of the
\* dictionary; "watch" is a level the severity mapping does not hold.
LevelNames == <<"hazardous", "watch", "unhealthy", "moderate">>

\* The 'threshold' column of the rows of a level.
RowThresholds ==
  [hazardous |-> 3504, watch |-> 1000, unhealthy |-> 1504, moderate |-> 354]

\* The geometries of the rows: the polygon around stations 1 and 2, or None.
RowGeometries == {Box(50, 10, 70, 30), NoGeometry}

\* The entries exceedance_data may hold for a level: a frame of at most
\* MaxRows rows.
Entries(level_name) ==
  {[level_name |-> level_name, gdf |-> gdf] :
     gdf \in UNION {[1..n -> [geometry : RowGeometries,
                               threshold : {RowThresholds[level_name]}]] :
                      n \in 0..MaxRows}}

ExceedanceInputs ==
  {e \in [1..NumLevels -> UNION {Entries(LevelNames[i]) : i \in 1..NumLevels}] :
     \A i \in 1..NumLevels : e[i].level_name = LevelNames[i]}

\* One user living in the first polygon, one working in the second.
ResidentUsers ==
  <<[home_location |-> PointAt(60, 20), work_location |-> NoLocation,
     is_active |-> TRUE],
    [home_location |-> NoLocation, work_location |-> PointAt(20, 60),
     is_active |-> TRUE]>>

\* process_exceedances called on a new session, any exceedance_data, any
\* set of stations; any one flush may hit a store error.
InitTrigger ==
  /\ DetectorIdle
  /\ pollutant = "pm25"
  /\ exceedances = EmptyMap
  /\ stations \in SUBSET Stations
  /\ readings = Readings
  /\ users = ResidentUsers
  /\ spatialOk \in BOOLEAN
  /\ storeErrorAt \in 0..(2 * NumLevels * MaxRows)
  /\ outputOk = TRUE
  /\ NewSession
  /\ InterpolatorIdle
  /\ GridIdle
  /\ IntegratorIdle
  /\ DispersionIdle
  /\ ApiIdle
  /\ ClockStart
  /\ exceedance_data \in ExceedanceInputs
  /\ tpc = "process"
  /\ cursor = FirstRowFrom(exceedance_data, 1, 1)
  /\ alert_ids = <<>>
  /\ log = <<>>
  /\ TaskIdle

\* process_exceedances called with one polygon, any users.
InitFanout ==
  /\ DetectorIdle
  /\ pollutant = "pm25"
  /\ exceedances = EmptyMap
  /\ stations = {s \in Stations : s.id = 1}
  /\ readings = Readings
  /\ users \in [1..NumUsers -> UserRecords]
  /\ spatialOk \in BOOLEAN
  /\ storeErrorAt \in 0..2
  /\ outputOk = TRUE
  /\ NewSession
  /\ InterpolatorIdle
  /\ GridIdle
  /\ IntegratorIdle
  /\ DispersionIdle
  /\ ApiIdle
  /\ ClockStart
  /\ exceedance_data \in
       {<<[level_name |-> "hazardous",
           gdf |-> <<[geometry |-> g, threshold |-> RowThresholds["hazardous"]]>>]>> :
          g \in Geometries}
  /\ tpc = "process"
  /\ cursor = <<1, 1>>
  /\ alert_ids = <<>>
  /\ log = <<>>
  /\ TaskIdle

\* The log entry of the row the loops are at.
LogEntry(center_coordinates, cause, alert) ==
  [level_name |-> exceedance_data[cursor[1]].level_name,
   geometry |-> exceedance_data[cursor[1]].gdf[cursor[2]].geometry,
   center_coordinates |-> center_coordinates,
   cause |-> cause,
   alert |-> alert,
   notified |-> "no",
   created |-> <<>>]

\* The row after the one the loops are at.
NextRow == FirstRowFrom(exceedance_data, cursor[1], cursor[2] + 1)

\* One pass of the inner loop up to `if alert_id:`: _create_alert for the row,
\* and alert_ids.append(alert_id) when it returned an id.
CreateAlert ==
  /\ tpc = "process"
  /\ cursor[1] <= Len(exceedance_data)
  /\ LET entry == exceedance_data[cursor[1]]
         row   == entry.gdf[cursor[2]]
     IN \E found \in get_current_max_value(pollutant, row.geometry, stations,
                                           readings, spatialOk, session = "active") :
          LET current_value == found[1]
              center_coordinates == found[2]
              affected_area_wkt == AffectedAreaWkt(row.geometry, center_coordinates)
              expires_at == plus_hours(clock + tick, alert_expiry_hours(config))
              alert == Alert(Len(alerts) + Len(txn_alerts) + 1, pollutant,
                             Severity(entry.level_name), affected_area_wkt,
                             row.threshold, current_value, center_coordinates,
                             clock + 2 * tick, expires_at)
              flushed == flush(<<alert>>, txn_alerts, alerts)
          IN IF affected_area_wkt = NoGeometry
               THEN \* "Cannot create alert without coordinates": return None
                    /\ log' = Append(log, LogEntry(center_coordinates,
                                                   "no_coordinates", NoAlert))
                    /\ cursor' = NextRow
                    /\ clock' = clock + 2 * tick
                    /\ UNCHANGED <<dbVars, tpc, alert_ids>>
             ELSE IF session # "active"
               THEN \* flush raises: the session awaits a rollback
                    /\ log' = Append(log, LogEntry(center_coordinates,
                                                   "pending_rollback", NoAlert))
                    /\ cursor' = NextRow
                    /\ clock' = clock + 3 * tick
                    /\ UNCHANGED <<dbVars, tpc, alert_ids>>
             ELSE IF flushes + 1 = storeErrorAt
               THEN \* flush raises: the transaction is rolled back
                    /\ flushes' = flushes + 1
                    /\ session' = "inactive"
                    /\ txn_alerts' = <<>>
                    /\ txn_notifications' = <<>>
                    /\ log' = Append(log, LogEntry(center_coordinates,
                                                   "store_error", NoAlert))
                    /\ cursor' = NextRow
                    /\ clock' = clock + 3 * tick
                    /\ UNCHANGED <<alerts, notifications, tpc, alert_ids>>
             ELSE /\ flushes' = flushes + 1
                  /\ txn_alerts' = flushed.txn
                  /\ alerts' = flushed.durable
                  /\ alert_ids' = Append(alert_ids, alert.id)
                  /\ log' = Append(log, LogEntry(center_coordinates,
                                                 "created", alert))
                  /\ tpc' = "notify"
                  /\ clock' = clock + 3 * tick
                  /\ UNCHANGED <<session, txn_notifications, notifications,
                                 cursor>>
  /\ UNCHANGED <<pollutant, exceedances, exceedance_data, detectorVars,
                 worldVars, taskVars, apiVars, dispersionVars,
                 interpolatorVars,
                 gridVars,
                 integratorVars>>

\* The rest of the pass: _notify_affected_users(alert_id).
NotifyAffectedUsers ==
  /\ tpc = "notify"
  /\ LET alert_id == alert_ids[Len(alert_ids)]
         visible  == SelectSeq(alerts \o txn_alerts, LAMBDA a : a.id = alert_id)
         new      == create_notifications(alert_id, users, visible[1].affected_area)
         flushed  == flush(new, txn_notifications, notifications)
         last     == Len(log)
     IN IF session # "active" \/ visible = <<>> \/ ~spatialOk
          THEN \* a statement raises, or the alert is not found: return 0
               /\ log' = [log EXCEPT ![last].notified = "raised"]
               /\ UNCHANGED dbVars
        ELSE IF new # <<>> /\ flushes + 1 = storeErrorAt
          THEN \* flush raises: the transaction is rolled back
               /\ flushes' = flushes + 1
               /\ session' = "inactive"
               /\ txn_alerts' = <<>>
               /\ txn_notifications' = <<>>
               /\ log' = [log EXCEPT ![last].notified = "raised",
                                     ![last].cause = "store_error"]
               /\ UNCHANGED <<alerts, notifications>>
        ELSE /\ flushes' = IF new # <<>> THEN flushes + 1 ELSE flushes
             /\ txn_notifications' = flushed.txn
             /\ notifications' = flushed.durable
             /\ log' = [log EXCEPT ![last].notified = "done",
                                   ![last].created = new]
             /\ UNCHANGED <<session, txn_alerts, alerts>>
  /\ cursor' = NextRow
  /\ tpc' = "process"
  /\ UNCHANGED <<pollutant, exceedances, exceedance_data, alert_ids,
                 detectorVars, worldVars, clock, taskVars, apiVars, dispersionVars,
                 interpolatorVars,
                 gridVars,
                 integratorVars>>

\* return alert_ids
ProcessReturns ==
  /\ tpc = "process"
  /\ cursor[1] > Len(exceedance_data)
  /\ tpc' = "returned"
  /\ UNCHANGED <<pollutant, exceedances, exceedance_data, cursor, alert_ids,
                 log, detectorVars, worldVars, clock, dbVars, taskVars, apiVars, dispersionVars,
                 interpolatorVars,
                 gridVars,
                 integratorVars>>

\* The messages of the rows whose message is "" generated, or left as they
\* are where the generation raised.
WithMessages(rows, ok) ==
  [k \in 1..Len(rows) |->
     IF rows[k].message = "" /\ ok THEN [rows[k] EXCEPT !.message = "generated"]
     ELSE rows[k]]

\* if alert_ids: generate_alert_messages(), which ends in the session's
\* commit; its first statement raises on a session that awaits a rollback.
GenerateAlertMessages ==
  /\ tpc = "returned"
  /\ alert_ids # <<>>
  /\ IF session # "active"
       THEN /\ tpc' = "failed"
            /\ UNCHANGED dbVars
       ELSE \E ok \in BOOLEAN :
              /\ alerts' = alerts \o txn_alerts
              /\ notifications' = WithMessages(notifications \o txn_notifications, ok)
              /\ txn_alerts' = <<>>
              /\ txn_notifications' = <<>>
              /\ tpc' = "generated"
              /\ UNCHANGED <<session, flushes>>
  /\ UNCHANGED <<pollutant, exceedances, exceedance_data, cursor, alert_ids,
                 log, detectorVars, worldVars, clock, taskVars, apiVars, dispersionVars,
                 interpolatorVars,
                 gridVars,
                 integratorVars>>

\* The end of `async with AsyncSession(engine) as session`: what was not
\* committed is discarded.
CloseSession ==
  /\ tpc \in {"returned", "generated", "failed"}
  /\ tpc = "returned" => alert_ids = <<>>
  /\ session' = "closed"
  /\ txn_alerts' = <<>>
  /\ txn_notifications' = <<>>
  /\ tpc' = "closed"
  /\ UNCHANGED <<pollutant, exceedances, exceedance_data, cursor, alert_ids,
                 log, flushes, alerts, notifications, detectorVars, worldVars, clock,
                 taskVars, apiVars, dispersionVars,
                 interpolatorVars,
                 gridVars,
                 integratorVars>>

NextTrigger ==
  \/ CreateAlert
  \/ NotifyAffectedUsers
  \/ ProcessReturns
  \/ GenerateAlertMessages
  \/ CloseSession

SpecTrigger == InitTrigger /\ [][NextTrigger]_vars

SpecFanout == InitFanout /\ [][NextTrigger]_vars

\* process_exceedances called with one row by an AlertTrigger of any
\* configuration, under a clock of any pace.
InitExpiry ==
  /\ DetectorIdle
  /\ pollutant = "pm25"
  /\ exceedances = EmptyMap
  /\ stations \in SUBSET {s \in Stations : s.id # 3}
  /\ readings = Readings
  /\ users = ResidentUsers
  /\ spatialOk = TRUE
  /\ storeErrorAt \in 0..2
  /\ outputOk = TRUE
  /\ NewSession
  /\ InterpolatorIdle
  /\ GridIdle
  /\ IntegratorIdle
  /\ DispersionIdle
  /\ ApiIdle
  /\ config \in Configs
  /\ tick \in 0..MaxTick
  /\ clock = 0
  /\ exceedance_data \in
       {<<[level_name |-> "hazardous",
           gdf |-> <<[geometry |-> g, threshold |-> RowThresholds["hazardous"]]>>]>> :
          g \in RowGeometries}
  /\ tpc = "process"
  /\ cursor = <<1, 1>>
  /\ alert_ids = <<>>
  /\ log = <<>>
  /\ TaskIdle

SpecExpiry == InitExpiry /\ [][NextTrigger]_vars

\* ------------------------------------- check_threshold_exceedances_task
\* The task started on a database of at most two stations with any of the
\* readings.
InitTask ==
  /\ DetectorIdle
  /\ pollutant \in Pollutants
  /\ exceedances = EmptyMap
  /\ stations \in {S \in SUBSET Stations : Cardinality(S) <= 2}
  /\ readings \in SUBSET Readings
  /\ users = ResidentUsers
  /\ spatialOk = TRUE
  /\ storeErrorAt = 0
  /\ outputOk \in BOOLEAN
  /\ NewSession
  /\ InterpolatorIdle
  /\ GridIdle
  /\ IntegratorIdle
  /\ DispersionIdle
  /\ ApiIdle
  /\ ClockStart
  /\ TriggerIdle
  /\ taskpc = "start"
  /\ data = {}
  /\ raster = EmptyMap
  /\ task_return = EmptyMap

Failure == [success |-> FALSE, alert_count |-> 0]

\* The query of the latest readings and the rows built from it.
TaskLoadReadings ==
  /\ taskpc = "start"
  /\ LET rows == LatestReadings(readings, stations)
         d    == TaskData(pollutant, rows)
     IN IF rows = {} \/ d = {}
          THEN \* "No readings found", "No <pollutant> readings found"
               /\ task_return' = Failure
               /\ taskpc' = "returned"
               /\ data' = d
          ELSE /\ data' = d
               /\ taskpc' = "interpolate"
               /\ UNCHANGED task_return
  /\ UNCHANGED <<pollutant, exceedances, raster, detectorVars, worldVars, clock,
                 dbVars, triggerVars, apiVars, dispersionVars,
                 interpolatorVars,
                 gridVars,
                 integratorVars>>

\* interpolator.interpolate_pollutant(gdf, pollutant), which raises when its
\* output cannot be saved.
TaskInterpolate ==
  /\ taskpc = "interpolate"
  /\ IF outputOk
       THEN /\ raster' = interpolate(data)
            /\ taskpc' = "identify"
            /\ UNCHANGED task_return
       ELSE /\ task_return' = Failure
            /\ taskpc' = "returned"
            /\ UNCHANGED raster
  /\ UNCHANGED <<pollutant, exceedances, data, detectorVars, worldVars, clock,
                 dbVars, triggerVars, apiVars, dispersionVars,
                 interpolatorVars,
                 gridVars,
                 integratorVars>>

\* exceedances = analyzer.identify_threshold_exceedances(pollutant, raster,
\* transform), analyzer a ThresholdAnalyzer; ValueError for a pollutant it has
\* no threshold for.
TaskIdentify ==
  /\ taskpc = "identify"
  /\ IF pollutant \in DOMAIN AnalyzerThresholds
       THEN /\ exceedances' = analyzer_exceedances(pollutant, raster)
            /\ taskpc' = "check"
            /\ UNCHANGED task_return
       ELSE /\ task_return' = Failure
            /\ taskpc' = "returned"
            /\ UNCHANGED exceedances
  /\ UNCHANGED <<pollutant, data, raster, detectorVars, worldVars, clock, dbVars,
                 triggerVars, apiVars, dispersionVars,
                 interpolatorVars,
                 gridVars,
                 integratorVars>>

\* `if exceedances:` on the boolean array: ValueError, caught by the task's
\* except, for a grid of more than one cell; the branches below it are
\* reached for a grid of one cell only.
TaskCheckExceedances ==
  /\ taskpc = "check"
  /\ IF TruthValueAmbiguous(exceedances)
       THEN /\ task_return' = Failure
            /\ taskpc' = "returned"
       ELSE IF \E cell \in DOMAIN exceedances : exceedances[cell]
         THEN /\ taskpc' = "trigger"
              /\ UNCHANGED task_return
         ELSE /\ task_return' = [success |-> TRUE, alert_count |-> 0]
              /\ taskpc' = "returned"
  /\ UNCHANGED <<pollutant, exceedances, data, raster, detectorVars,
                 worldVars, clock, dbVars, triggerVars, apiVars, dispersionVars,
                 interpolatorVars,
                 gridVars,
                 integratorVars>>

\* The end of `async with AsyncSession(engine) as session`.
TaskExit ==
  /\ taskpc = "returned"
  /\ session' = "closed"
  /\ txn_alerts' = <<>>
  /\ txn_notifications' = <<>>
  /\ taskpc' = "done"
  /\ UNCHANGED <<pollutant, exceedances, data, raster, task_return, flushes,
                 alerts, notifications, detectorVars, worldVars, clock, triggerVars, apiVars, dispersionVars,
                 interpolatorVars,
                 gridVars,
                 integratorVars>>

NextTask ==
  \/ TaskLoadReadings
  \/ TaskInterpolate
  \/ TaskIdentify
  \/ TaskCheckExceedances
  \/ TaskExit

SpecTask == InitTask /\ [][NextTask]_vars

\* -------------------------------------------------- POST /check_alerts
\* The variables of the pipeline, which the request handling leaves alone.
pipelineVars ==
  <<pollutant, exceedances, clock, detectorVars, worldVars, dbVars,
    triggerVars, taskVars>>

PipelineIdle ==
  /\ DetectorIdle
  /\ pollutant = "pm25"
  /\ exceedances = EmptyMap
  /\ stations = {}
  /\ readings = {}
  /\ users = <<>>
  /\ spatialOk = TRUE
  /\ storeErrorAt = 0
  /\ outputOk = TRUE
  /\ session = "active"
  /\ flushes = 0
  /\ txn_alerts = <<>>
  /\ txn_notifications = <<>>
  /\ alerts = <<>>
  /\ notifications = <<>>
  /\ ClockStart
  /\ TriggerIdle
  /\ TaskIdle

\* get_valid_pollutants()
valid_pollutants == <<"pm25", "pm10", "o3", "no2", "so2", "co", "aqi">>

\* The query parameter when it is left out.
NonePollutant == "None"

\* The values of the query parameter: none, a valid pollutant, another string.
RequestedPollutants == Range(valid_pollutants) \cup {NonePollutant, "", "voc"}

\* A request arrives; the statements of a task outside its try (the session's
\* construction, SpatialInterpolator's os.makedirs) raise for any of the
\* pollutants.
InitCheckAlerts ==
  /\ PipelineIdle
  /\ DispersionIdle
  /\ InterpolatorIdle
  /\ GridIdle
  /\ IntegratorIdle
  /\ request \in RequestedPollutants
  /\ response = NoResponse
  /\ background_tasks = <<>>
  /\ batch_log = <<>>
  /\ raising \in SUBSET Range(valid_pollutants)

\* check_alerts(background_tasks, pollutant): HTTP 400, or the tasks added
\* and the answer returned.  `not pollutant` holds of None and of "".
check_alerts ==
  /\ response = NoResponse
  /\ request # NoRequest
  /\ IF request \notin {NonePollutant, ""} /\ request \notin Range(valid_pollutants)
       THEN /\ response' = [status |-> 400, pollutants |-> <<>>]
            /\ UNCHANGED background_tasks
     ELSE IF request \in {NonePollutant, ""}
       THEN /\ background_tasks' = valid_pollutants
            /\ response' = [status |-> 200, pollutants |-> valid_pollutants]
     ELSE /\ background_tasks' = <<request>>
          /\ response' = [status |-> 200, pollutants |-> <<request>>]
  /\ UNCHANGED <<request, batch_log, raising, pipelineVars, dispersionVars,
                 interpolatorVars,
                 gridVars,
                 integratorVars>>

\* BackgroundTasks.__call__, once the response is sent: `for task in
\* self.tasks: await task()`, one pass.  The task opens a session of its own
\* and returns; an exception it lets out ends the loop, and the tasks after
\* it are not run.
run_background_task ==
  /\ response # NoResponse
  /\ background_tasks # <<>>
  /\ LET p == Head(background_tasks)
     IN IF p \in raising
          THEN /\ batch_log' = Append(batch_log,
                                      [pollutant |-> p, session |-> Len(batch_log) + 1,
                                       outcome |-> "raised"])
               /\ background_tasks' = <<>>
          ELSE /\ batch_log' = Append(batch_log,
                                      [pollutant |-> p, session |-> Len(batch_log) + 1,
                                       outcome |-> "returned"])
               /\ background_tasks' = Tail(background_tasks)
  /\ UNCHANGED <<request, response, raising, pipelineVars, dispersionVars,
                 interpolatorVars,
                 gridVars,
                 integratorVars>>

NextCheckAlerts == check_alerts \/ run_background_task

SpecCheckAlerts == InitCheckAlerts /\ [][NextCheckAlerts]_vars

\* -------------------------------------------------- DispersionModel calls
\* A model of MaxSteps steps and the arguments of its calls: wind series
\* shorter than the steps, as long, and longer.
InitDispersion ==
  /\ PipelineIdle
  /\ ApiIdle
  /\ InterpolatorIdle
  /\ GridIdle
  /\ IntegratorIdle
  /\ initial_concentration = InitialGrid
  /\ wind_directions \in SeriesOver(Directions)
  /\ wind_speeds \in SeriesOver(Speeds)
  /\ time_steps = MaxSteps
  /\ predictions = <<>>
  /\ forecasts = <<>>
  /\ draws = 0

\* A call of predict_dispersion with the arguments.
PredictDispersion ==
  /\ Len(predictions) < MaxCalls
  /\ LET result == predict_dispersion(initial_concentration, wind_directions,
                                      wind_speeds, time_steps)
     IN /\ draws' = draws + prediction_draws(time_steps)
        /\ predictions' = Append(predictions,
                                 [raised |-> result.raised, grids |-> result.grids,
                                  objects |-> IF result.raised THEN <<>>
                                              ELSE grid_objects(Len(predictions) + 1,
                                                                time_steps),
                                  draws_before |-> draws, draws_after |-> draws',
                                  forecasts_before |-> Len(forecasts)])
  /\ UNCHANGED <<initial_concentration, wind_directions, wind_speeds, time_steps,
                 forecasts, pipelineVars, apiVars, interpolatorVars,
                 gridVars,
                 integratorVars>>

\* A call of generate_wind_forecast(270, 3.6, hours_per_step).
GenerateWindForecast ==
  /\ Len(forecasts) < MaxCalls
  /\ \E forecast \in generate_wind_forecast(270, 36) :
       forecasts' = Append(forecasts, forecast)
  /\ draws' = draws + forecast_draws(1)
  /\ UNCHANGED <<initial_concentration, wind_directions, wind_speeds, time_steps,
                 predictions, pipelineVars, apiVars, interpolatorVars,
                 gridVars,
                 integratorVars>>

NextDispersion == PredictDispersion \/ GenerateWindForecast

SpecDispersion == InitDispersion /\ [][NextDispersion]_vars

\* The caller of predict_dispersion, with wind for exactly the steps asked.
InitAliasing ==
  /\ PipelineIdle
  /\ ApiIdle
  /\ InterpolatorIdle
  /\ GridIdle
  /\ IntegratorIdle
  /\ initial_concentration = InitialGrid
  /\ time_steps = MaxSteps
  /\ wind_directions \in [1..MaxSteps -> Directions]
  /\ wind_speeds \in [1..MaxSteps -> Speeds]
  /\ predictions = <<>>
  /\ forecasts = <<>>
  /\ draws = 0

NothingWritten ==
  \A c \in DOMAIN predictions :
    \A k \in DOMAIN predictions[c].grids : predictions[c].grids[k].op # "written"

\* The caller assigns into one of the grids a call returned: every name of
\* that array object sees the assignment.
WriteReturnedGrid ==
  /\ NothingWritten
  /\ \E c \in DOMAIN predictions :
       \E k \in DOMAIN predictions[c].grids :
         LET target == predictions[c].objects[k]
         IN /\ predictions' =
                 [d \in DOMAIN predictions |->
                    [predictions[d] EXCEPT !.grids =
                       [j \in DOMAIN @ |->
                          IF predictions[d].objects[j] = target
                            THEN written(@[j]) ELSE @[j]]]]
            /\ initial_concentration' =
                 IF target = caller_array THEN written(initial_concentration)
                 ELSE initial_concentration
  /\ UNCHANGED <<wind_directions, wind_speeds, time_steps, forecasts, draws,
                 pipelineVars, apiVars, interpolatorVars, gridVars,
                 integratorVars>>

NextAliasing == PredictDispersion \/ WriteReturnedGrid

SpecAliasing == InitAliasing /\ [][NextAliasing]_vars

\* ---------------------------------------------- SpatialInterpolator calls
\* The methods a call or a configuration names; "spline" is not available.
MethodNames == {NoneMethod, "idw", "rbf", "linear", "kriging", "spline"}

\* An interpolator to construct from any configuration, and the call made on
\* it: any frame, any method, the backends working or not.
InitInterpolate ==
  /\ PipelineIdle
  /\ ApiIdle
  /\ DispersionIdle
  /\ GridIdle
  /\ IntegratorIdle
  /\ points_gdf \in Frames
  /\ method \in MethodNames
  /\ configured \in MethodNames
  /\ default_method = Unset
  /\ pykrige \in {"works", "fails", "missing"}
  /\ rbf_ok \in BOOLEAN
  /\ griddata_ok \in BOOLEAN
  /\ interpolation = NoInterpolation

\* SpatialInterpolator(config)
NewInterpolator ==
  /\ default_method = Unset
  /\ default_method' = validated_default(configured)
  /\ UNCHANGED <<points_gdf, method, configured, pykrige, rbf_ok, griddata_ok,
                 interpolation, pipelineVars, apiVars, dispersionVars,
                 gridVars,
                 integratorVars>>

\* interpolator.interpolate(points_gdf, value_column, None, method)
Interpolate ==
  /\ default_method # Unset
  /\ interpolation = NoInterpolation
  /\ interpolation' = interpolate_by(points_gdf, method, default_method, pykrige,
                                     rbf_ok, griddata_ok)
  /\ UNCHANGED <<points_gdf, method, configured, default_method, pykrige, rbf_ok,
                 griddata_ok, pipelineVars, apiVars, dispersionVars,
                 gridVars,
                 integratorVars>>

NextInterpolate == NewInterpolator \/ Interpolate

SpecInterpolate == InitInterpolate /\ [][NextInterpolate]_vars

\* --------------------------------------- interpolate, cell by cell (IDW)
\* An interpolator of the default configuration and a frame of one or two
\* rows to interpolate by IDW or by the default method.
InitGrid ==
  /\ PipelineIdle
  /\ ApiIdle
  /\ DispersionIdle
  /\ points_gdf \in IdwFrames
  /\ method \in {NoneMethod, "idw", "spline"}
  /\ configured \in {NoneMethod, "idw", "spline"}
  /\ default_method = Unset
  /\ pykrige = "works"
  /\ rbf_ok = TRUE
  /\ griddata_ok = TRUE
  /\ interpolation = NoInterpolation
  /\ GridIdle
  /\ IntegratorIdle

\* interpolator.interpolate(points_gdf, value_column, None, method) for a
\* method that resolves to 'idw': the grid with its cells, and the transform.
InterpolateIdw ==
  /\ default_method = "idw"
  /\ interpolation = NoInterpolation
  /\ method \notin Range(AVAILABLE_METHODS) \ {"idw"}
  /\ LET samples == valid_samples(points_gdf)
         bounds  == raster_bounds(samples)
     IN /\ interpolation' = interpolate_by(points_gdf, method, default_method,
                                           pykrige, rbf_ok, griddata_ok)
        /\ zi' = idw_grid(samples)
        /\ transform' = from_origin(bounds.minx, bounds.maxy, 1, 1)
  /\ UNCHANGED <<points_gdf, method, configured, default_method, pykrige, rbf_ok,
                 griddata_ok, pipelineVars, apiVars, dispersionVars,
                 integratorVars>>

NextGrid == NewInterpolator \/ InterpolateIdw

SpecGrid == InitGrid /\ [][NextGrid]_vars

\* ------------------------------------------- collect_and_store_data
\* One fetcher has returned its batches; the store may become unavailable
\* from any record or commit of the two calls on, and stays so.
InitCollect ==
  /\ PipelineIdle
  /\ ApiIdle
  /\ DispersionIdle
  /\ InterpolatorIdle
  /\ GridIdle
  /\ fetched_stations \in BatchesUpTo(MaxStationRecords)
  /\ fetched_readings \in BatchesUpTo(MaxReadingRecords)
  /\ down_from \in 0..(Len(fetched_stations) + Len(fetched_readings) + 2)
  /\ rollback_ok \in BOOLEAN
  /\ cpc = "stations"
  /\ stored_stations = NotCalled
  /\ stored_readings = NotCalled
  /\ results = NoResults

\* if stations: stored_stations = await self._store_stations(stations)
StoreStations ==
  /\ cpc = "stations"
  /\ LET stored == store_stations(fetched_stations, down_within(down_from, 0),
                                  rollback_ok)
     IN IF fetched_stations = <<>>
          THEN /\ cpc' = "readings"
               /\ UNCHANGED <<stored_stations, results>>
        ELSE IF stored.raised
          THEN /\ stored_stations' = stored
               /\ cpc' = "done"
               /\ UNCHANGED results
        ELSE /\ stored_stations' = stored
             /\ results' = [results EXCEPT !.stations = @ + stored.returned]
             /\ cpc' = "readings"
  /\ UNCHANGED <<fetched_stations, fetched_readings, down_from, rollback_ok,
                 stored_readings, pipelineVars, apiVars, dispersionVars,
                 interpolatorVars, gridVars>>

\* The positions the call of _store_stations took.
stations_positions == IF fetched_stations = <<>> THEN 0 ELSE Len(fetched_stations) + 1

\* if readings: stored_readings = await self._store_readings(readings), the
\* fetcher not being a weather fetcher.
StoreReadings ==
  /\ cpc = "readings"
  /\ LET stored == store_readings(fetched_readings,
                                  down_within(down_from, stations_positions),
                                  rollback_ok)
     IN IF fetched_readings = <<>>
          THEN UNCHANGED <<stored_readings, results>>
        ELSE IF stored.raised
          THEN /\ stored_readings' = stored
               /\ UNCHANGED results
        ELSE /\ stored_readings' = stored
             /\ results' = [results EXCEPT !.readings = @ + stored.returned]
  /\ cpc' = "done"
  /\ UNCHANGED <<fetched_stations, fetched_readings, down_from, rollback_ok,
                 stored_stations, pipelineVars, apiVars, dispersionVars,
                 interpolatorVars, gridVars>>

\* return results, an error of the fetcher's pass logged.
CollectReturns ==
  /\ cpc = "done"
  /\ cpc' = "returned"
  /\ UNCHANGED <<fetched_stations, fetched_readings, down_from, rollback_ok,
                 stored_stations, stored_readings, results, pipelineVars,
                 apiVars, dispersionVars, interpolatorVars, gridVars>>

NextCollect == StoreStations \/ StoreReadings \/ CollectReturns

SpecCollect == InitCollect /\ [][NextCollect]_vars

\* ------------------------------------------------ claims on the detector
LevelsOf(result) == DOMAIN result

CellsOf(result, level) ==
  IF level \in DOMAIN result THEN Covered(result[level]) ELSE {}

\* C1: in the map identify_threshold_exceedances returns, no grid cell is
\* covered by the polygons of two different severity levels.
C1_Disjoint ==
  dpc = "done" =>
    \A l1 \in LevelsOf(exceedances), l2 \in LevelsOf(exceedances) :
      l1 # l2 => CellsOf(exceedances, l1) \cap CellsOf(exceedances, l2) = {}

\* Two levels hold polygons, and the less severe level's mask held cells the
\* more severe level had claimed.
C1_Witness ==
  /\ dpc = "done"
  /\ \E l1 \in LevelsOf(exceedances), l2 \in LevelsOf(exceedances) :
       /\ l1 # l2
       /\ CellsOf(exceedances, l1) # {}
       /\ CellsOf(exceedances, l2) # {}
       /\ \E c \in CellsOf(exceedances, l1) :
            concentration[c] > exceedances[l2][1].threshold

\* The levels a polygon set is computed for: the five of severity_levels
\* that the pollutant's thresholds hold.
AlertLevels(table, p) ==
  {severity_levels[i] : i \in 1..Len(severity_levels)}
    \cap DOMAIN PollutantThresholds(table, p)

Rank(level) == CHOOSE i \in 1..Len(severity_levels) : severity_levels[i] = level

\* The levels of the pollutant whose threshold the cell's value strictly
\* exceeds.
Exceeded(table, p, c) ==
  {l \in AlertLevels(table, p) :
     concentration[c] > PollutantThresholds(table, p)[l]}

MostSevere(levels) == CHOOSE l \in levels : \A k \in levels : Rank(l) <= Rank(k)

CoveringLevels(result, c) == {l \in DOMAIN result : c \in CellsOf(result, l)}

\* C2, as claimed, on the default table with a working vectorisation (and
\* with a pinched cell left outside its ring): every cell is covered by
\* exactly the most severe level whose threshold its value strictly exceeds,
\* and by no level when it exceeds none.
C2_CoveredByMostSevere ==
  (dpc = "done" /\ raisedLevel = NoLevel /\ rasterOk /\ ringsTouch
     /\ thresholds = DEFAULT_THRESHOLDS) =>
    \A c \in Cells :
      CoveringLevels(exceedances, c) =
        IF Exceeded(thresholds, pollutant, c) = {} THEN {}
        ELSE {MostSevere(Exceeded(thresholds, pollutant, c))}

\* A step of the computation raises: a level of the pollutant holds None.
SomeStepRaises(table, p) ==
  \E l \in AlertLevels(table, p) : PollutantThresholds(table, p)[l] = NoneThreshold

\* C3, as claimed: the result has an entry for every level the threshold
\* table configures for the pollutant.
C3_EveryConfiguredLevel ==
  dpc = "done" =>
    DOMAIN PollutantThresholds(thresholds, pollutant) \subseteq DOMAIN exceedances

\* C3, amended: a run in which no step raises returns an entry for exactly
\* the levels among hazardous, very_unhealthy, unhealthy, unhealthy_sensitive
\* and moderate that are configured for the pollutant ('good' never has one);
\* a run in which a step raises returns the empty map.
C3_AlertLevelsOrNothing ==
  dpc = "done" =>
    DOMAIN exceedances =
      IF SomeStepRaises(thresholds, pollutant) THEN {}
      ELSE AlertLevels(thresholds, pollutant)

\* A result that holds a level with no polygon beside a level with one.
C3_Witness ==
  /\ dpc = "done"
  /\ \E l1 \in DOMAIN exceedances, l2 \in DOMAIN exceedances :
       exceedances[l1] = <<>> /\ exceedances[l2] # <<>>

Unlabelled(result) ==
  [l \in DOMAIN result |->
     [i \in 1..Len(result[l]) |->
        [geometry  |-> result[l][i].geometry,
         area_km2  |-> result[l][i].area_km2,
         threshold |-> result[l][i].threshold,
         level     |-> result[l][i].level]]]

\* C9: for a pollutant absent from the threshold table in use the result is,
\* up to the pollutant label, the result for 'aqi' on the same grid.
C9_UnknownPollutantUsesAqi ==
  (dpc = "done" /\ pollutant \notin DOMAIN thresholds) =>
    Unlabelled(exceedances) =
      Unlabelled(identify_threshold_exceedances(
                   thresholds, "aqi", concentration, rasterOk, ringsTouch))

\* An unknown pollutant for which the 'aqi' thresholds yield polygons.
C9_Witness ==
  /\ dpc = "done"
  /\ pollutant \notin DOMAIN thresholds
  /\ "aqi" \in DOMAIN thresholds
  /\ \E l \in DOMAIN exceedances :
       /\ exceedances[l] # <<>>
       /\ exceedances[l][1].threshold = thresholds["aqi"][l]
       /\ exceedances[l][1].pollutant = pollutant

Area(result, level) == Cardinality(CellsOf(result, level))

\* C10: raising one level's threshold, the others unchanged, never increases
\* the number of cells that level's entry covers.
C10_Monotone ==
  raisedLevel # NoLevel =>
    Area(exceedances, raisedLevel) <= Area(previous, raisedLevel)

\* A raise that shrinks the level's area without emptying it.
C10_Witness ==
  /\ raisedLevel # NoLevel
  /\ Area(exceedances, raisedLevel) < Area(previous, raisedLevel)
  /\ Area(exceedances, raisedLevel) > 0

\* --------------------------------------------------- claims on the trigger
\* The notifications a log entry's fan-out created for a user.
CreatedFor(entry, u) == SelectSeq(entry.created, LAMBDA n : n.user_id = u)

HomeIntersects(entry, u) ==
  ST_Intersects(users[u].home_location, entry.alert.affected_area)

WorkIntersects(entry, u) ==
  ST_Intersects(users[u].work_location, entry.alert.affected_area)

\* C4: a fan-out that completes creates exactly one notification for each
\* active user whose home or work location intersects the alert's area and
\* none for any other user, tagged 'home' when the home intersects and 'work'
\* when the work location alone does; these are the rows it wrote for the
\* alert.
C4_FanOut ==
  \A k \in 1..Len(log) :
    log[k].notified = "done" =>
      /\ \A u \in DOMAIN users :
           IF users[u].is_active
                /\ (HomeIntersects(log[k], u) \/ WorkIntersects(log[k], u))
             THEN /\ Len(CreatedFor(log[k], u)) = 1
                  /\ CreatedFor(log[k], u)[1].alert_id = log[k].alert.id
                  /\ CreatedFor(log[k], u)[1].location_type =
                       IF HomeIntersects(log[k], u) THEN "home" ELSE "work"
             ELSE Len(CreatedFor(log[k], u)) = 0
      /\ (session = "active" /\ tpc \in {"process", "returned"}) =>
           SelectSeq(txn_notifications,
                     LAMBDA n : n.alert_id = log[k].alert.id) = log[k].created

\* An area that intersects one active user's home and another active user's
\* work location only: two notifications, (A, home) and (B, work).
C4_Witness ==
  \E k \in 1..Len(log) :
    /\ log[k].notified = "done"
    /\ Len(log[k].created) = 2
    /\ \E a \in DOMAIN users, b \in DOMAIN users :
         /\ HomeIntersects(log[k], a)
         /\ ~HomeIntersects(log[k], b) /\ WorkIntersects(log[k], b)
         /\ \E i \in 1..2, j \in 1..2 :
              /\ log[k].created[i].user_id = a
              /\ log[k].created[i].location_type = "home"
              /\ log[k].created[j].user_id = b
              /\ log[k].created[j].location_type = "work"

\* C5, as claimed: when process_exceedances returns, every row but those
\* whose own handling failed (no resolvable coordinates, a store error) has
\* an Alert that was created, is in the returned list and is in the store.
C5_OtherPolygonsStillAlert ==
  tpc = "returned" =>
    \A k \in 1..Len(log) :
      log[k].cause \notin {"no_coordinates", "store_error"} =>
        /\ log[k].alert # NoAlert
        /\ log[k].alert.id \in Range(alert_ids)
        /\ log[k].alert \in Range(txn_alerts)

\* C6, as claimed: for a row whose geometry cannot be serialized and whose
\* handling met no store error, no Alert is created when no center was
\* resolved, and otherwise the Alert's area is the circle of radius 0.05
\* degrees around the longitude and latitude stored as center_longitude and
\* center_latitude.
C6_FallbackCircleAtCenter ==
  \A k \in 1..Len(log) :
    (log[k].geometry = NoGeometry
       /\ log[k].cause \in {"created", "no_coordinates"}) =>
      IF log[k].center_coordinates = NoCoordinates
        THEN log[k].alert = NoAlert
        ELSE /\ log[k].alert # NoAlert
             /\ log[k].alert.center_latitude = log[k].center_coordinates[1]
             /\ log[k].alert.center_longitude = log[k].center_coordinates[2]
             /\ log[k].alert.affected_area =
                  Buffer(PointAt(log[k].alert.center_longitude,
                                 log[k].alert.center_latitude), radius_degrees)

\* C7: every committed Alert had its fan-out attempted before the commit,
\* and the notifications that fan-out created are committed with it.
C7_CommittedWithFanOut ==
  \A i \in 1..Len(alerts) :
    \E k \in 1..Len(log) :
      /\ log[k].alert = alerts[i]
      /\ log[k].notified # "no"
      /\ \A j \in 1..Len(log[k].created) :
           \E m \in 1..Len(notifications) :
             /\ notifications[m].alert_id = log[k].created[j].alert_id
             /\ notifications[m].user_id = log[k].created[j].user_id
             /\ notifications[m].location_type = log[k].created[j].location_type

\* A committed Alert with a committed notification of its fan-out, and a
\* second committed Alert.
C7_Witness ==
  /\ Len(alerts) = 2
  /\ \E m \in 1..Len(notifications) : notifications[m].alert_id = alerts[1].id
  /\ \E k \in 1..Len(log) : log[k].alert = alerts[1] /\ log[k].created # <<>>

\* C8, as claimed: with the single station 1, whose latest pm25 reading is
\* 200.0 and less than an hour old, the finished task has produced exactly
\* one Alert, for pm25, of the severity of 'unhealthy', with current_value
\* 200.0 and a center in the polygon around the station.
C8_OneAlertForSingleStation ==
  (/\ taskpc = "done"
   /\ pollutant = "pm25"
   /\ outputOk
   /\ stations = {s \in Stations : s.id = 1}
   /\ readings = {r \in Readings : r.station_id = 1}) =>
    /\ Len(alerts) = 1
    /\ alerts[1].pollutant = "pm25"
    /\ alerts[1].severity_level = Severity("unhealthy")
    /\ alerts[1].current_value = 2000
    /\ \E cell \in DOMAIN raster :
         /\ raster[cell].num > RowThresholds["unhealthy"] * raster[cell].den
         /\ cell = <<alerts[1].center_latitude, alerts[1].center_longitude>>

\* The stations the center falls back to for a row, as the first query
\* returns them.
FoundStations(entry) == StationsIn(entry.geometry, stations, spatialOk)

\* C11, as claimed, on a session no flush of which fails: the center of a
\* row is the centroid of its polygon when the polygon has one; otherwise the
\* average coordinate of the stations found for it, whenever there is such a
\* station; and no coordinate only when neither source yields one (without a
\* station there is no maximum reading either).
C11_CenterByPriority ==
  storeErrorAt = 0 =>
    \A k \in 1..Len(log) :
      IF HasGeometry(log[k].geometry)
        THEN log[k].center_coordinates = Centroid(log[k].geometry)
      ELSE IF FoundStations(log[k]) # {}
        THEN /\ log[k].center_coordinates # NoCoordinates
             /\ log[k].center_coordinates[1] * Cardinality(FoundStations(log[k]))
                  = Sum([s \in FoundStations(log[k]) |-> s.latitude],
                        FoundStations(log[k]))
             /\ log[k].center_coordinates[2] * Cardinality(FoundStations(log[k]))
                  = Sum([s \in FoundStations(log[k]) |-> s.longitude],
                        FoundStations(log[k]))
      ELSE log[k].center_coordinates = NoCoordinates

\* The readings of the row's pollutant taken within the last hour by the
\* stations in the row's polygon, or by every station when the polygon has
\* no wkt or the spatial query raises.
WindowValues(entry) ==
  LET scope == IF HasGeometry(entry.geometry) /\ spatialOk
                 THEN {s \in stations :
                         ST_Intersects(PointAt(s.longitude, s.latitude), entry.geometry)}
                 ELSE stations
  IN {r.value : r \in {q \in readings : /\ q.station_id \in {s.id : s \in scope}
                                        /\ q.pollutant = pollutant
                                        /\ q.age <= RecentHours}}

\* C12: the current_value of every Alert created is the greatest reading of
\* the pollutant taken within the last hour by the stations in the polygon
\* (by all stations when the spatial query is unavailable or raises), and
\* 0.0 when there is no such reading.
C12_CurrentValueIsWindowMax ==
  \A k \in 1..Len(log) :
    log[k].cause = "created" =>
      IF WindowValues(log[k]) = {} THEN log[k].alert.current_value = 0
      ELSE /\ log[k].alert.current_value \in WindowValues(log[k])
           /\ \A v \in WindowValues(log[k]) : v <= log[k].alert.current_value

\* An Alert whose current_value is a reading in the window although an older
\* reading of the same pollutant is greater.
C12_Witness ==
  \E k \in 1..Len(log) :
    /\ log[k].cause = "created"
    /\ log[k].alert.current_value > 0
    /\ \E r \in readings : /\ r.pollutant = pollutant
                           /\ r.age > RecentHours
                           /\ r.value > log[k].alert.current_value

\* The expiry the trigger is configured with, in hours.
ConfiguredExpiry ==
  IF "alert_expiry_hours" \in DOMAIN config THEN config["alert_expiry_hours"]
  ELSE DefaultExpiryHours

\* C13, as claimed: every Alert created is active and expires exactly the
\* configured expiry (6 hours by default) after its created_at, hence after it.
C13_ExpiresAtCreationPlusExpiry ==
  \A k \in 1..Len(log) :
    log[k].cause = "created" =>
      /\ log[k].alert.is_active
      /\ log[k].alert.expires_at
           = log[k].alert.created_at + ConfiguredExpiry * HourTicks
      /\ log[k].alert.expires_at > log[k].alert.created_at

\* C13, as the code has it: every Alert created is active; expires_at is
\* the configured expiry after a clock read that precedes the read of
\* created_at, so it is at most the expiry after created_at and short of it
\* by no more than the time between the two reads; and it is later than
\* created_at when the expiry is an hour or more.
C13_ActiveAndExpiresWithinExpiry ==
  \A k \in 1..Len(log) :
    log[k].cause = "created" =>
      /\ log[k].alert.is_active
      /\ log[k].alert.expires_at
           <= log[k].alert.created_at + ConfiguredExpiry * HourTicks
      /\ log[k].alert.expires_at
           >= log[k].alert.created_at + ConfiguredExpiry * HourTicks - MaxTick
      /\ ConfiguredExpiry >= 1 =>
           log[k].alert.expires_at > log[k].alert.created_at

\* An Alert created under the default expiry while the clock advanced
\* between the two reads.
C13_Witness ==
  \E k \in 1..Len(log) :
    /\ log[k].cause = "created"
    /\ config = EmptyMap
    /\ tick > 0
    /\ log[k].alert.expires_at > log[k].alert.created_at

\* The pollutants check_alerts added a task for.
Scheduled == Range(response.pollutants)

\* C14, as claimed: check_alerts only schedules (one task for the requested
\* pollutant, one per valid pollutant when none is given, none when it is
\* invalid) and no task has run when it answers; every task runs in a session
\* of its own; and once the tasks have been gone through, every scheduled
\* pollutant's task has run, whatever became of the others.
C14_BatchesRunIndependently ==
  /\ response = NoResponse => batch_log = <<>>
  /\ response # NoResponse =>
       /\ response.status = 400 <=>
            request \notin Range(valid_pollutants) \cup {NonePollutant, ""}
       /\ Scheduled = IF request \in {NonePollutant, ""} THEN Range(valid_pollutants)
                      ELSE IF request \in Range(valid_pollutants) THEN {request}
                      ELSE {}
       /\ \A i, j \in 1..Len(batch_log) :
            i # j => batch_log[i].session # batch_log[j].session
       /\ background_tasks = <<>> =>
            \A p \in Scheduled : \E i \in 1..Len(batch_log) : batch_log[i].pollutant = p

\* The call's wind series cover the steps of the model.
WindCoversSteps == Len(wind_directions) >= time_steps /\ Len(wind_speeds) >= time_steps

\* C15: a call of predict_dispersion for n steps that is given wind for all
\* of them returns n + 1 grids, the first the initial grid, and grid k the
\* shift, Gaussian filter and decay of grid k - 1 under the k-th wind
\* direction and speed.
C15_GridsStepByStep ==
  \A c \in 1..Len(predictions) :
    WindCoversSteps =>
      /\ ~predictions[c].raised
      /\ Len(predictions[c].grids) = time_steps + 1
      /\ predictions[c].grids[1] = initial_concentration
      /\ \A k \in 1..time_steps :
           predictions[c].grids[k + 1]
             = [op |-> "decay", rate |-> 95,
                of |-> [op |-> "gaussian_filter", sigma |-> 10 + 2 * wind_speeds[k],
                        of |-> [op |-> "shift",
                                of |-> predictions[c].grids[k],
                                dy |-> wind_speeds[k]
                                         * Sin((270 - wind_directions[k]) % 360),
                                dx |-> wind_speeds[k]
                                         * Cos((270 - wind_directions[k]) % 360)]]]

\* A call made with winds that change from the first step to the second.
C15_Witness ==
  /\ Len(predictions) > 0
  /\ WindCoversSteps
  /\ wind_directions[1] # wind_directions[2]
  /\ wind_speeds[1] # wind_speeds[2]

PredictionIsPure ==
  /\ \A c \in 1..Len(predictions) :
       /\ predictions[c].draws_before = predictions[c].draws_after
       /\ predictions[c].grids
            = predict_dispersion(initial_concentration, wind_directions,
                                 wind_speeds, time_steps).grids
  /\ \A c, d \in 1..Len(predictions) :
       /\ predictions[c].grids = predictions[d].grids
       /\ predictions[c].raised = predictions[d].raised

\* C17, as claimed: two calls of predict_dispersion with the same arguments
\* return the same grids and take no random draw, whatever forecasts are
\* generated in between; and the generator is seeded, so that two calls of
\* it with the same arguments return the same forecast.
C17_PureAndSeeded ==
  /\ PredictionIsPure
  /\ \A f, g \in 1..Len(forecasts) : forecasts[f] = forecasts[g]

\* C17, as the code has it: the prediction is pure as claimed, and every
\* random draw is one of generate_wind_forecast, which draws from numpy's
\* global random state without seeding it.
C17_PureAndGeneratorDraws ==
  /\ PredictionIsPure
  /\ draws = forecast_draws(1) * Len(forecasts)

\* Two predictions that agree although a forecast was generated between them.
C17_Witness ==
  /\ Len(predictions) = 2
  /\ ~predictions[1].raised
  /\ predictions[1].forecasts_before < predictions[2].forecasts_before
  /\ predictions[1].grids = predictions[2].grids

\* interpolate has been called and has returned or raised.
Interpolated == interpolation # NoInterpolation

\* The rows of the frame whose value is present, in the frame's order.
PresentRows == SelectSeq(points_gdf, LAMBDA row : row.value # NaN)

\* C18: when no row of the frame has a value, interpolate raises a ValueError
\* and returns no grid; a grid it returns is computed from the rows whose
\* value is present and from no other row.
C18_GridFromValidSamples ==
  Interpolated =>
    /\ PresentRows = <<>> =>
         /\ interpolation.raised
         /\ interpolation.error = "ValueError"
         /\ interpolation.zi = NoGrid
    /\ ~interpolation.raised =>
         /\ interpolation.zi.samples = PresentRows
         /\ interpolation.num_points = Len(PresentRows)
         /\ \A i \in 1..Len(interpolation.zi.samples) :
              /\ interpolation.zi.bounds.minx <= interpolation.zi.samples[i].x
              /\ interpolation.zi.bounds.maxx >= interpolation.zi.samples[i].x
         /\ \E i \in 1..Len(PresentRows) :
              interpolation.zi.bounds.minx = PresentRows[i].x - PaddingCells

\* A grid returned for a frame that holds a row without a value.
C18_Witness ==
  /\ Interpolated
  /\ ~interpolation.raised
  /\ Len(PresentRows) < Len(points_gdf)

\* The method name of the call is not one of the available methods.
UnknownMethod == method # NoneMethod /\ method \notin Range(AVAILABLE_METHODS)

\* C19: the method interpolate applies is always an available one; for a
\* method name that is not available it is the configured default, or 'idw'
\* when the configured default is not available either, and the call does
\* not fail for the name: with samples and a working backend it returns a
\* grid.
C19_AppliedMethodAvailable ==
  Interpolated =>
    /\ interpolation.method \in Range(AVAILABLE_METHODS)
    /\ default_method \in Range(AVAILABLE_METHODS)
    /\ UnknownMethod =>
         /\ interpolation.method
              = IF configured \in Range(AVAILABLE_METHODS) THEN configured ELSE "idw"
         /\ interpolation.raised =>
              \/ PresentRows = <<>>
              \/ interpolation.method \in {"rbf", "kriging"} /\ ~rbf_ok
              \/ interpolation.method \in {"linear", "cubic", "nearest"} /\ ~griddata_ok

\* A grid returned for an unknown method name by an interpolator whose
\* configured default is unknown as well.
C19_Witness ==
  /\ Interpolated
  /\ UnknownMethod
  /\ configured \notin Range(AVAILABLE_METHODS) \cup {NoneMethod}
  /\ ~interpolation.raised
  /\ interpolation.zi.backend = "idw"

\* The call reaches the kriging stage: kriging is the method applied and the
\* frame has a row with a value.
KrigingStage == interpolation.method = "kriging" /\ PresentRows # <<>>

\* C20: when kriging is applied and PyKrige is missing or raises, RBF is
\* attempted exactly once and its grid is returned; the call raises only if
\* that RBF attempt fails as well; and RBF is not attempted when kriging
\* succeeds.
C20_KrigingFallsBackToRbfOnce ==
  (Interpolated /\ KrigingStage) =>
    /\ pykrige = "works" =>
         /\ ~interpolation.raised
         /\ interpolation.rbf_calls = 0
         /\ interpolation.zi.backend = "kriging"
    /\ pykrige # "works" =>
         /\ interpolation.rbf_calls = 1
         /\ interpolation.raised <=> ~rbf_ok
         /\ ~interpolation.raised => interpolation.zi.backend = "rbf"
    /\ interpolation.raised => (pykrige # "works" /\ ~rbf_ok)

\* A grid of RBF returned by a call for kriging without PyKrige.
C20_Witness ==
  /\ Interpolated
  /\ method = "kriging"
  /\ pykrige = "missing"
  /\ ~interpolation.raised
  /\ interpolation.zi.backend = "rbf"

\* The grid of an IDW interpolation has been computed.
GridComputed == zi # EmptyMap

\* The <<row, column>> of the node of the grid at a sample's position.
NodeOf(sample) ==
  LET bounds == raster_bounds(points_gdf)
  IN <<sample.y - bounds.miny, sample.x - bounds.minx>>

\* C21, as claimed: the node at the position of any sample holds that
\* sample's value, whatever the other samples are, and no node is the
\* quotient of a division by zero.
C21_EverySampleExactAtItsNode ==
  GridComputed =>
    /\ \A k \in 1..Len(points_gdf) :
         zi[NodeOf(points_gdf[k])] = [num |-> points_gdf[k].value, den |-> 1]
    /\ \A cell \in DOMAIN zi : zi[cell].den # 0

\* C21, as the code has it: the node at the position of a sample holds the
\* value of the first row of the frame at that position, which is the
\* sample's own value unless an earlier row shares its position; and no node
\* is the quotient of a division by zero.
C21_FirstSampleExactAtItsNode ==
  GridComputed =>
    /\ \A k \in 1..Len(points_gdf) :
         LET first == Min({m \in 1..Len(points_gdf) :
                             /\ points_gdf[m].x = points_gdf[k].x
                             /\ points_gdf[m].y = points_gdf[k].y})
         IN zi[NodeOf(points_gdf[k])] = [num |-> points_gdf[first].value, den |-> 1]
    /\ \A cell \in DOMAIN zi : zi[cell].den # 0

\* A grid of two samples at different nodes, each node holding its sample's
\* value.
C21_Witness ==
  /\ GridComputed
  /\ Len(points_gdf) = 2
  /\ NodeOf(points_gdf[1]) # NodeOf(points_gdf[2])
  /\ zi[NodeOf(points_gdf[2])].num = points_gdf[2].value

\* ------------------------------------------- claims on grid and transform
\* C27: the returned grid and the returned transform agree: the cell that
\* the transform maps to a sample's (longitude, latitude) is the node of
\* the grid computed at that position, so row 0 of the grid is the northern
\* edge that the transform declares as its origin.
C27_TransformAddressesTheNode ==
  GridComputed =>
    \A k \in DOMAIN points_gdf :
      rowcol(transform, points_gdf[k].x, points_gdf[k].y) = NodeOf(points_gdf[k])

\* ------------------------------------------------ claims on the total mass
RECURSIVE Power(_, _)
Power(base, k) == IF k = 0 THEN 1 ELSE base * Power(base, k - 1)

CalmWind == \A k \in 1..time_steps : wind_speeds[k] = 0

\* C23: with a wind speed of 0 at every step, the cells of the grid of step
\* k sum to the sum of the cells of the initial grid times 0.95 to the power
\* k: advection moves nothing, diffusion spreads without loss, and the decay
\* takes 5% per step.
C23_CalmMassDecaysGeometrically ==
  \A c \in 1..Len(predictions) :
    (WindCoversSteps /\ CalmWind) =>
      \A k \in 0..time_steps :
        LET m == mass(predictions[c].grids[k + 1])
        IN /\ m.exact
           /\ m.num = Power(95, k)
           /\ m.den = Power(100, k)

\* A calm call that has returned the grid of its last step.
C23_Witness ==
  /\ Len(predictions) > 0
  /\ WindCoversSteps
  /\ CalmWind
  /\ mass(predictions[1].grids[time_steps + 1]).den = Power(100, time_steps)

\* ---------------------------------------------- claims on array identity
\* C26: the grids a call of predict_dispersion returns are arrays of their
\* own: none is the caller's initial array and no two are the same array, so
\* the caller's initial grid is what it was whatever is later assigned into
\* a returned grid.
C26_ReturnedGridsAreSeparate ==
  /\ initial_concentration = InitialGrid
  /\ \A c \in DOMAIN predictions :
       \A k \in DOMAIN predictions[c].objects :
         /\ predictions[c].objects[k] # caller_array
         /\ \A d \in DOMAIN predictions :
              \A j \in DOMAIN predictions[d].objects :
                predictions[c].objects[k] = predictions[d].objects[j]
                  => (c = d /\ k = j)

\* ------------------------------------------------ claims on the metadata
\* C25: the method recorded in the metadata of a call that returns is the
\* method that produced the returned grid, whatever method was asked for and
\* whatever fallback was taken.
C25_MetadataNamesTheBackend ==
  (Interpolated /\ ~interpolation.raised) =>
    interpolation.method = interpolation.zi.backend

\* ------------------------------------------- claims on the impact radius
\* The radius per severity level the configuration holds, 2.5 km without.
ConfiguredRadiusPerLevel ==
  IF "default_radius_km" \in DOMAIN config THEN config["default_radius_km"] ELSE 25

\* The affected area of a logged Alert is the geometry of its row or, the
\* row having none, the disc of radius_degrees around the center: no term of
\* it is the impact radius.
AreaWithoutImpactRadius(entry) ==
  entry.alert.affected_area =
    IF HasGeometry(entry.geometry) THEN entry.geometry
    ELSE Buffer(Point(entry.center_coordinates), radius_degrees)

\* C24, as claimed: the impact radius of every Alert created is its severity
\* rank times the radius per level the configuration holds, 2.5 km when it
\* holds none, and the affected area is built without it.
C24_RadiusFromConfiguration ==
  \A k \in 1..Len(log) :
    log[k].cause = "created" =>
      /\ log[k].alert.impact_radius_km
           = log[k].alert.severity_level * ConfiguredRadiusPerLevel
      /\ AreaWithoutImpactRadius(log[k])

\* C24, as the code has it: the impact radius of every Alert created is its
\* severity rank times 2.5 km whatever the configuration holds, and the
\* affected area is built without it.
C24_RadiusIsRankTimesTwoAndAHalf ==
  \A k \in 1..Len(log) :
    log[k].cause = "created" =>
      /\ log[k].alert.impact_radius_km = log[k].alert.severity_level * 25
      /\ AreaWithoutImpactRadius(log[k])

\* An Alert of a rank above 1 created for a row without geometry under a
\* configuration that holds a radius.
C24_Witness ==
  \E k \in 1..Len(log) :
    /\ log[k].cause = "created"
    /\ "default_radius_km" \in DOMAIN config
    /\ log[k].alert.severity_level > 1
    /\ ~HasGeometry(log[k].geometry)

\* ------------------------------------------ claims on the current value
\* C29: every Alert created has a current_value above its threshold_value:
\* none is created for a row no recent reading of the pollutant exceeds.
C29_CurrentValueAboveThreshold ==
  \A k \in 1..Len(log) :
    log[k].cause = "created" =>
      log[k].alert.current_value > log[k].alert.threshold_value

\* ------------------------------------------- claims on the reported ids
\* C28: when the session of the task has been closed, every id that
\* process_exceedances returned is the id of a committed Alert, and the
\* notifications created for that Alert are committed with it, whether the
\* message generation succeeded or not.
C28_ReportedAlertsAreCommitted ==
  tpc = "closed" =>
    \A n \in 1..Len(alert_ids) :
      /\ \E i \in 1..Len(alerts) : alerts[i].id = alert_ids[n]
      /\ \A k \in 1..Len(log) :
           (log[k].alert # NoAlert /\ log[k].alert.id = alert_ids[n]) =>
             \A j \in 1..Len(log[k].created) :
               \E m \in 1..Len(notifications) :
                 /\ notifications[m].alert_id = log[k].created[j].alert_id
                 /\ notifications[m].user_id = log[k].created[j].user_id

\* ------------------------------------------------ claims on the batches
\* The store was lost during the call, after a commit of the call.
LostMidBatch(records, down_at, stored) ==
  /\ down_at \in 1..(Len(records) + 1)
  /\ stored.stored > 0

StationsDownAt == down_within(down_from, 0)

ReadingsDownAt == down_within(down_from, stations_positions)

StationsCalled == cpc = "returned" /\ fetched_stations # <<>>

ReadingsCalled ==
  cpc = "returned" /\ fetched_readings # <<>> /\ ~stored_stations.raised

\* C22: when the store is lost in the middle of a batch, after one of its
\* incremental commits, the records committed before stay stored and the
\* call raises for the rest of the batch.
C22_CommittedKeptAndErrorRaised ==
  /\ (StationsCalled /\ LostMidBatch(fetched_stations, StationsDownAt, stored_stations)) =>
       /\ stored_stations.stored >= stations_commit_every
       /\ stored_stations.raised
  /\ (ReadingsCalled /\ LostMidBatch(fetched_readings, ReadingsDownAt, stored_readings)) =>
       /\ stored_readings.stored >= readings_commit_every
       /\ stored_readings.raised

\* C30: the count a call of _store_stations or _store_readings returns is
\* the number of records of the call the store holds when it returns.
C30_CountIsWhatIsStored ==
  /\ (StationsCalled /\ ~stored_stations.raised) =>
       stored_stations.returned = stored_stations.stored
  /\ (ReadingsCalled /\ ~stored_readings.raised) =>
       stored_readings.returned = stored_readings.stored

====
